---- MODULE Spec2Model ----
(***************************************************************************)
(* A model of diskv: the Diskv store of diskv.go (cache, size counter,     *)
(* index maintenance, lazy cache population by a detached goroutine) and   *)
(* the ordered index of index.go / ordered_store.go (paginated key         *)
(* iteration).                                                             *)
(*                                                                         *)
(* Spec is the store configured as in basic_test.go: a flat transform      *)
(* (every key's file lies directly under BasePath), no Compression, an     *)
(* Index that was initialised by New.  Write, Erase, EraseAll and          *)
(* cacheWithoutLock hold the store's exclusive lock for their whole body   *)
(* and Read and ReadStream hold the shared lock for their whole body, so   *)
(* each is one atomic step; the goroutine spawned by Read is a pending     *)
(* task that runs at any later time.  A panic in that goroutine ends the   *)
(* process: no step follows it.  SpecCodec is the same store with a        *)
(* Compression.  SpecLock takes Diskv.write step by step under the mutex.  *)
(* SpecTree and SpecWriteErase keep the directory tree under BasePath, for *)
(* the flat, the default and the block transform; SpecTreeRead adds Read,  *)
(* ReadStream and the cache to that tree.  SpecIndex is the ordered index. *)
(* SpecWriteFail adds the Writes that fail on the device.  SpecIndexLess   *)
(* is a store whose Options may lack IndexLess.  SpecStore is the legacy   *)
(* Store of store.go and SpecOrdered the OrderedStore of ordered_store.go  *)
(* called by two goroutines.  SpecFair takes every method from its Lock to *)
(* its Unlock, called by two goroutines under fair scheduling.             *)
(* SpecIndexRace is LLRBIndex.Keys with its feeding goroutine while Insert *)
(* and Delete go on.                                                       *)
(* The size counter is a uint64 in the code and an integer here; the       *)
(* claims that bound it also state that it never goes below zero, which is *)
(* where the unsigned counter would wrap.                                  *)
(***************************************************************************)
EXTENDS Integers, Sequences, FiniteSets, Bags, TLC

\* ------------------------------------------------------------- bounds
MaxValLen == 2
MaxTasks == 2
MaxCacheSizeMax == 2
MaxCount == 3
MaxCalls == 4

\* ------------------------------------------------------------- inputs
\* Byte values a stored value is made of.
Bytes == {1}

\* Non-empty keys of the store, and the keys an operation may be called with
\* (the empty key included).
Keys == {"a", "b"}
EmptyKey == ""
InputKeys == Keys \cup {EmptyKey}

\* The keys of index_test.go's TestIndexOrder, each one byte long, with the
\* byte's code: Go compares strings byte by byte.
IndexKeys == {"-", "1", "A", "a", "m"}
Code == [k \in IndexKeys |->
            CASE k = "-" -> 45 [] k = "1" -> 49 [] k = "A" -> 65
              [] k = "a" -> 97 [] k = "m" -> 109]

\* The count TestIndexOrder asks for, and the counts a call may ask for.
BigCount == 100
Counts == 0..MaxCount \cup {BigCount}

\* Every byte sequence up to MaxValLen bytes, the empty one included.
Values == UNION {[1..m -> Bytes] : m \in 0..MaxValLen}

VARIABLES
    CacheSizeMax,   \* Options.CacheSizeMax
    Compression,    \* Options.Compression != nil
    files,          \* the directory under BasePath: key -> contents of its file
    cache,          \* Diskv.cache: map[string][]byte
    cacheSize,      \* Diskv.cacheSize
    index,          \* the key set of Options.Index
    tasks,          \* goroutines "go d.cacheWithoutLock(key, val)" not yet run
    panicked,       \* the process died in a panic
    last,           \* the last completed call: operation, key, value, error
    written,        \* ghost: key -> value of the successful Write in force
    erased,         \* ghost: key -> erased successfully and not written since
    tree,           \* LLRBIndex.tree / OrderedStore.index: the indexed keys
    call,           \* the last Keys / KeysFrom call on the tree, or NoCall
    page,           \* the keys that call returned
    pager,          \* a client paginating with a cursor
    Transform,      \* Options.Transform, by name
    fs,             \* the filesystem under BasePath: path -> directory or file
    yielded,        \* what the channel of the last Keys() yielded: a bag
    errno,          \* the error the last call on the directory tree returned
    wr,             \* the goroutine inside Diskv.write, and how far it got
    th,             \* the goroutines calling the store: thread -> position
    feed,           \* the goroutine feeding the channel LLRBIndex.Keys returned
    initialized     \* LLRBIndex: tree != nil && less != nil

dvars == <<CacheSizeMax, Compression, files, cache, cacheSize, index, tasks,
           panicked, last, written, erased>>
ivars == <<tree, call, page, pager>>
fvars == <<Transform, fs, yielded, errno>>
cvars == <<th, feed, initialized>>
lvars == <<wr, th, feed, initialized>>
vars == <<CacheSizeMax, Compression, files, cache, cacheSize, index, tasks,
          panicked, last, written, erased, tree, call, page, pager,
          Transform, fs, yielded, errno, wr, th, feed, initialized>>

\* ------------------------------------------------------------- Go maps
\* delete(m, k)
Remove(m, k) == [x \in DOMAIN m \ {k} |-> m[x]]

\* m[k] = v
Put(m, k, v) == [x \in DOMAIN m \cup {k} |-> IF x = k THEN v ELSE m[x]]

\* map[string][]byte{}
EmptyMap == [x \in {} |-> <<>>]

\* The sum of the lengths of the values a map holds.
RECURSIVE SumLen(_)
SumLen(m) ==
    IF DOMAIN m = {} THEN 0
    ELSE LET k == CHOOSE x \in DOMAIN m : TRUE
         IN Len(m[k]) + SumLen(Remove(m, k))

\* ------------------------------------------------------------- Diskv
\* A Compression whose Decompress inverts Compress: Compress puts a header
\* byte, which no value byte equals, before the bytes; Decompress takes it off
\* and fails on bytes that do not start with it (as gzip.NewReader does).
Compress(val) == <<0>> \o val
Decompress(val) ==
    IF val # <<>> /\ Head(val) = 0
    THEN [val |-> Tail(val), err |-> FALSE]
    ELSE [val |-> <<>>, err |-> TRUE]

\* The bytes a file can hold: a value, or a value compressed.
FileValues == Values \cup {Compress(val) : val \in Values}

\* Diskv.decompress: through the codec when Options.Compression is set, the
\* value as it is otherwise.
decompress(val) ==
    IF Compression THEN Decompress(val) ELSE [val |-> val, err |-> FALSE]

\* Diskv.maybeWriteCompressed: what reaches the file.
maybeWriteCompressed(val) == IF Compression THEN Compress(val) ELSE val

\* Diskv.maybeReadDecompressed: what reaches the writer.
maybeReadDecompressed(val) ==
    IF Compression THEN Decompress(val) ELSE [val |-> val, err |-> FALSE]

\* The closure safe of ensureCacheSpaceFor.
safe(sz, valueSize) == (sz + valueSize) <= CacheSizeMax

\* The loop of ensureCacheSpaceFor: entries are deleted in the map's
\* iteration order, which Go leaves unspecified, until safe() holds or every
\* entry was visited.  The set of the (cache, cacheSize) pairs it can end in.
RECURSIVE evictLoop(_, _, _)
evictLoop(c, sz, valueSize) ==
    IF safe(sz, valueSize) \/ DOMAIN c = {}
    THEN {[cache |-> c, cacheSize |-> sz]}
    ELSE UNION {evictLoop(Remove(c, k), sz - Len(c[k]), valueSize) : k \in DOMAIN c}

\* Diskv.ensureCacheSpaceFor: the outcomes it can have on cache c with
\* counter sz.  err: the value is too large, nothing was touched.  panic: the
\* "still won't fit in the cache" panic.
ensureCacheSpaceFor(c, sz, valueSize) ==
    IF valueSize > CacheSizeMax
    THEN {[cache |-> c, cacheSize |-> sz, err |-> TRUE, panic |-> FALSE]}
    ELSE {[cache |-> o.cache, cacheSize |-> o.cacheSize, err |-> FALSE,
           panic |-> ~safe(o.cacheSize, valueSize)] : o \in evictLoop(c, sz, valueSize)}

\* A cacheWithLock that inserts without making room first.
cacheWithLock_NoRoom(c, sz, key, val) ==
    {[cache |-> Put(c, key, val), cacheSize |-> sz + Len(val),
      err |-> FALSE, panic |-> FALSE]}

\* A cacheWithLock that stores the value and leaves the counter alone.
cacheWithLock_NoCount(c, sz, key, val) ==
    LET valueSize == Len(val)
    IN { IF o.err \/ o.panic THEN o
         ELSE IF (o.cacheSize + valueSize) > CacheSizeMax
              THEN [o EXCEPT !.panic = TRUE]
              ELSE [cache |-> Put(o.cache, key, val),
                    cacheSize |-> o.cacheSize,
                    err |-> FALSE, panic |-> FALSE]
         : o \in ensureCacheSpaceFor(c, sz, valueSize) }

\* Diskv.cacheWithLock: the outcomes of caching (key, val).
cacheWithLock(c, sz, key, val) ==
    LET valueSize == Len(val)
    IN { IF o.err \/ o.panic THEN o
         ELSE IF (o.cacheSize + valueSize) > CacheSizeMax
              THEN [o EXCEPT !.panic = TRUE]
              ELSE [cache |-> Put(o.cache, key, val),
                    cacheSize |-> o.cacheSize + valueSize,
                    err |-> FALSE, panic |-> FALSE]
         : o \in ensureCacheSpaceFor(c, sz, valueSize) }

\* Diskv.Keys: the names of the files the walk of BasePath finds.
DiskKeys == DOMAIN files

Event(op, key, val, err) == [op |-> op, key |-> key, val |-> val, err |-> err]

\* Diskv.write, called by Write, WriteStream and WriteAndSync.
Write(key, val) ==
    /\ ~panicked
    /\ IF key = EmptyKey
       THEN /\ last' = Event("Write", key, val, TRUE)
            /\ UNCHANGED <<files, index, cache, written, erased>>
       ELSE /\ files' = Put(files, key, maybeWriteCompressed(val))
            /\ index' = index \cup {key}
            /\ cache' = Remove(cache, key)
            /\ last' = Event("Write", key, val, FALSE)
            /\ written' = Put(written, key, val)
            /\ erased' = [erased EXCEPT ![key] = FALSE]
    /\ UNCHANGED <<CacheSizeMax, cacheSize, tasks, panicked>>
    /\ UNCHANGED <<Compression, ivars, fvars, lvars>>

\* A Read of a cached key that starts the caching goroutine all the same.
ReadHit_Repopulate(key) ==
    /\ ~panicked
    /\ key \in DOMAIN cache
    /\ BagCardinality(tasks) < MaxTasks
    /\ tasks' = tasks (+) SetToBag({<<key, cache[key]>>})
    /\ LET r == decompress(cache[key])
       IN last' = Event("Read", key, r.val, r.err)
    /\ UNCHANGED <<CacheSizeMax, files, cache, cacheSize, index, panicked,
                   written, erased>>
    /\ UNCHANGED <<Compression, ivars, fvars, lvars>>

\* Diskv.Read, served from the cache.
ReadHit(key) ==
    /\ ~panicked
    /\ key \in DOMAIN cache
    /\ LET r == decompress(cache[key])
       IN last' = Event("Read", key, r.val, r.err)
    /\ UNCHANGED <<CacheSizeMax, files, cache, cacheSize, index, tasks, panicked,
                   written, erased>>
    /\ UNCHANGED <<Compression, ivars, fvars, lvars>>

\* Diskv.Read, served from the disk: ioutil.ReadFile fails when the key has
\* no file (the empty key names a directory); otherwise the goroutine that
\* will cache the bytes is started.
ReadMiss(key) ==
    /\ ~panicked
    /\ key \notin DOMAIN cache
    /\ IF key \notin DOMAIN files
       THEN /\ last' = Event("Read", key, <<>>, TRUE)
            /\ UNCHANGED tasks
       ELSE /\ BagCardinality(tasks) < MaxTasks
            /\ tasks' = tasks (+) SetToBag({<<key, files[key]>>})
            /\ LET r == decompress(files[key])
               IN last' = Event("Read", key, r.val, r.err)
    /\ UNCHANGED <<CacheSizeMax, files, cache, cacheSize, index, panicked,
                   written, erased>>
    /\ UNCHANGED <<Compression, ivars, fvars, lvars>>

\* Diskv.ReadStream(key, writer): the file is copied to the writer through
\* maybeReadDecompressed, under the shared lock; val is what the writer got.
\* The cache is neither consulted nor changed.
ReadStream(key) ==
    /\ ~panicked
    /\ IF key \notin DOMAIN files
       THEN last' = Event("ReadStream", key, <<>>, TRUE)
       ELSE LET r == maybeReadDecompressed(files[key])
            IN last' = Event("ReadStream", key, r.val, r.err)
    /\ UNCHANGED <<CacheSizeMax, files, cache, cacheSize, index, tasks, panicked,
                   written, erased>>
    /\ UNCHANGED <<Compression, ivars, fvars, lvars>>

\* Diskv.Erase.
Erase(key) ==
    /\ ~panicked
    /\ cache' = Remove(cache, key)
    /\ cacheSize' = IF key \in DOMAIN cache THEN cacheSize - Len(cache[key])
                    ELSE cacheSize
    /\ index' = index \ {key}
    /\ IF key \in DOMAIN files
       THEN /\ files' = Remove(files, key)
            /\ last' = Event("Erase", key, <<>>, FALSE)
            /\ written' = Remove(written, key)
            /\ erased' = [erased EXCEPT ![key] = TRUE]
       ELSE /\ last' = Event("Erase", key, <<>>, TRUE)
            /\ UNCHANGED <<files, written, erased>>
    /\ UNCHANGED <<CacheSizeMax, tasks, panicked>>
    /\ UNCHANGED <<Compression, ivars, fvars, lvars>>

\* Diskv.EraseAll.
EraseAll ==
    /\ ~panicked
    /\ cache' = EmptyMap
    /\ cacheSize' = 0
    /\ files' = EmptyMap
    /\ last' = Event("EraseAll", EmptyKey, <<>>, FALSE)
    /\ written' = EmptyMap
    /\ UNCHANGED <<CacheSizeMax, index, tasks, panicked, erased>>
    /\ UNCHANGED <<Compression, ivars, fvars, lvars>>

\* Diskv.cacheWithoutLock, run by the goroutine Read started.
CacheTask(key, val) ==
    /\ ~panicked
    /\ BagIn(<<key, val>>, tasks)
    /\ tasks' = tasks (-) SetToBag({<<key, val>>})
    /\ \E o \in cacheWithLock(cache, cacheSize, key, val) :
          /\ cache' = o.cache
          /\ cacheSize' = o.cacheSize
          /\ panicked' = o.panic
          /\ last' = Event("cache", key, val, o.err)
    /\ UNCHANGED <<CacheSizeMax, files, index, written, erased>>
    /\ UNCHANGED <<Compression, ivars, fvars, lvars>>

NoCall == [impl |-> "none", from |-> EmptyKey, n |-> 0]
IdlePager == [phase |-> "idle", impl |-> "none", cursor |-> EmptyKey, n |-> 0,
              seen |-> <<>>, calls |-> 0]

\* No goroutine is inside Diskv.write.
IdleWriter == [pc |-> "idle", key |-> EmptyKey, val |-> <<>>]

\* The goroutines that call the store, and a goroutine that is in no call.
Threads == {1, 2}
IdleThread == [pc |-> "idle", op |-> "none", key |-> EmptyKey, val |-> <<>>]

\* No channel of LLRBIndex.Keys is being fed.
IdleFeed == [pc |-> "idle", n |-> 0, sent |-> 0, at |-> {}, pos |-> EmptyKey,
             incl |-> FALSE, upper |-> EmptyKey, out |-> <<>>]

\* New(Options{CacheSizeMax: max, Compression: comp, Transform: xf, Index:
\* an LLRBIndex, IndexLess: set or nil}) on a BasePath that does not exist
\* yet: an empty cache, a counter of 0, and, when IndexLess is set, the
\* index built from Keys() by Initialize.
NewOptions(max, comp, xf, less) ==
    /\ CacheSizeMax = max
    /\ Compression = comp
    /\ Transform = xf
    /\ fs = EmptyMap
    /\ yielded = EmptyBag
    /\ errno = "nil"
    /\ wr = IdleWriter
    /\ th = [t \in Threads |-> IdleThread]
    /\ feed = IdleFeed
    /\ initialized = less
    /\ files = EmptyMap
    /\ cache = EmptyMap
    /\ cacheSize = 0
    /\ index = DiskKeys
    /\ tasks = EmptyBag
    /\ panicked = FALSE
    /\ last = Event("New", EmptyKey, <<>>, FALSE)
    /\ written = EmptyMap
    /\ erased = [k \in Keys |-> FALSE]
    /\ tree = {}
    /\ call = NoCall
    /\ page = <<>>
    /\ pager = IdlePager

\* New with an Index and an IndexLess, as in the tests.
New(max, comp, xf) == NewOptions(max, comp, xf, TRUE)

\* The store of basic_test.go: a flat transform, no Compression.
Init == \E max \in 0..MaxCacheSizeMax : New(max, FALSE, "flat")

Next ==
    \/ \E key \in InputKeys, val \in Values : Write(key, val)
    \/ \E key \in InputKeys : ReadHit(key)
    \/ \E key \in InputKeys : ReadMiss(key)
    \/ \E key \in InputKeys : ReadStream(key)
    \/ \E key \in InputKeys : Erase(key)
    \/ EraseAll
    \/ \E key \in Keys, val \in FileValues : CacheTask(key, val)

Spec == Init /\ [][Next]_vars

\* The same store with a Compression (compression.go), as in TestIssue2A.
InitCodec == \E max \in 0..MaxCacheSizeMax : New(max, TRUE, "flat")

SpecCodec == InitCodec /\ [][Next]_vars

\* ------------------------------------------------------------- IndexLess
\* Diskv.write with the check of LLRBIndex.Insert: on an index that was
\* never initialised the file is written and closed, and Insert panics.
IndexedWrite(key, val) ==
    \/ /\ initialized \/ key = EmptyKey
       /\ Write(key, val)
    \/ /\ ~initialized
       /\ key # EmptyKey
       /\ ~panicked
       /\ files' = Put(files, key, maybeWriteCompressed(val))
       /\ panicked' = TRUE
       /\ last' = Event("panic", key, val, TRUE)
       /\ UNCHANGED <<CacheSizeMax, Compression, cache, cacheSize, index, tasks,
                      written, erased>>
       /\ UNCHANGED <<ivars, fvars, lvars>>

\* Diskv.Erase with the check of LLRBIndex.Delete: on an index that was
\* never initialised the cache entry is dropped, and Delete panics.
IndexedErase(key) ==
    \/ /\ initialized
       /\ Erase(key)
    \/ /\ ~initialized
       /\ ~panicked
       /\ cache' = Remove(cache, key)
       /\ cacheSize' = IF key \in DOMAIN cache THEN cacheSize - Len(cache[key])
                       ELSE cacheSize
       /\ panicked' = TRUE
       /\ last' = Event("panic", key, <<>>, TRUE)
       /\ UNCHANGED <<CacheSizeMax, Compression, files, index, tasks, written,
                      erased>>
       /\ UNCHANGED <<ivars, fvars, lvars>>

\* A store without a cache whose Options name an LLRBIndex, with or without
\* an IndexLess.
InitIndexLess == \E less \in BOOLEAN : NewOptions(0, FALSE, "flat", less)

NextIndexLess ==
    \/ \E key \in InputKeys, val \in Values : IndexedWrite(key, val)
    \/ \E key \in InputKeys : ReadHit(key)
    \/ \E key \in InputKeys : ReadMiss(key)
    \/ \E key \in InputKeys : IndexedErase(key)
    \/ EraseAll
    \/ \E key \in Keys, val \in FileValues : CacheTask(key, val)

SpecIndexLess == InitIndexLess /\ [][NextIndexLess]_vars

\* ------------------------------------------------------------- Store
\* f.Write(v) on a file opened with O_WRONLY|O_CREATE and no O_TRUNC: the
\* bytes of v replace the first len(v) bytes, the rest of the file stays.
Overwrite(old, v) == v \o SubSeq(old, Len(v) + 1, Len(old))

\* Store.Write of the legacy store (NewStore): the file is opened without
\* O_TRUNC and written from its start; the cache is left alone.
StoreWrite(k, v) ==
    /\ ~panicked
    /\ IF k = EmptyKey
       THEN /\ last' = Event("Write", k, v, TRUE)
            /\ UNCHANGED <<files, written, erased>>
       ELSE /\ files' = Put(files, k,
                            Overwrite(IF k \in DOMAIN files THEN files[k] ELSE <<>>, v))
            /\ last' = Event("Write", k, v, FALSE)
            /\ written' = Put(written, k, v)
            /\ erased' = [erased EXCEPT ![k] = FALSE]
    /\ UNCHANGED <<CacheSizeMax, cache, cacheSize, index, tasks, panicked>>
    /\ UNCHANGED <<Compression, ivars, fvars, lvars>>

\* Store.Read: the cache first, then ioutil.ReadFile and the caching
\* goroutine, as in Diskv.Read without a Compression.
StoreRead(k) == ReadHit(k) \/ ReadMiss(k)

\* Store.Erase: the cache entry, then the file; the store has no index.
StoreErase(k) == Erase(k)

\* Store.Flush: the cache is reset and baseDir removed.
StoreFlush == EraseAll

\* Store.cacheWithoutLock, run by the goroutine Store.Read started.
StoreCacheTask(k, v) == CacheTask(k, v)

NextStore ==
    \/ \E k \in InputKeys, v \in Values : StoreWrite(k, v)
    \/ \E k \in InputKeys : StoreRead(k)
    \/ \E k \in InputKeys : StoreErase(k)
    \/ StoreFlush
    \/ \E k \in Keys, v \in Values : StoreCacheTask(k, v)

\* NewStore(baseDir, xf, cacheSizeMax) with the flat transform.
SpecStore == Init /\ [][NextStore]_vars

\* ------------------------------------------------------------- OrderedStore
\* OrderedStore.Write up to the return of s.Store.Write, which holds the
\* store's mutex for its whole body; on success the goroutine goes on to the
\* index, on an error it returns.
OrderedWrite(t, k, v) ==
    /\ ~panicked
    /\ th[t].pc = "idle"
    /\ IF k = EmptyKey
       THEN /\ last' = Event("Write", k, v, TRUE)
            /\ UNCHANGED <<files, th>>
       ELSE /\ files' = Put(files, k,
                            Overwrite(IF k \in DOMAIN files THEN files[k] ELSE <<>>, v))
            /\ th' = [th EXCEPT ![t] = [pc |-> "index", op |-> "Write",
                                        key |-> k, val |-> v]]
            /\ UNCHANGED last
    /\ UNCHANGED <<CacheSizeMax, Compression, cache, cacheSize, index, tasks,
                   panicked, written, erased>>
    /\ UNCHANGED <<ivars, fvars, wr, feed, initialized>>

\* OrderedStore.Erase up to the return of s.Store.Erase.
OrderedErase(t, k) ==
    /\ ~panicked
    /\ th[t].pc = "idle"
    /\ cache' = Remove(cache, k)
    /\ cacheSize' = IF k \in DOMAIN cache THEN cacheSize - Len(cache[k])
                    ELSE cacheSize
    /\ IF k \in DOMAIN files
       THEN /\ files' = Remove(files, k)
            /\ th' = [th EXCEPT ![t] = [pc |-> "index", op |-> "Erase",
                                        key |-> k, val |-> <<>>]]
            /\ UNCHANGED last
       ELSE /\ last' = Event("Erase", k, <<>>, TRUE)
            /\ UNCHANGED <<files, th>>
    /\ UNCHANGED <<CacheSizeMax, Compression, index, tasks, panicked, written,
                   erased>>
    /\ UNCHANGED <<ivars, fvars, wr, feed, initialized>>

\* The rest of OrderedStore.Write and OrderedStore.Erase: indexMutex is
\* taken, the key is put into the tree or deleted from it, and the call
\* returns.
OrderedIndex(t) ==
    /\ ~panicked
    /\ th[t].pc = "index"
    /\ tree' = IF th[t].op = "Write" THEN tree \cup {th[t].key}
               ELSE tree \ {th[t].key}
    /\ last' = Event(th[t].op, th[t].key, th[t].val, FALSE)
    /\ th' = [th EXCEPT ![t] = IdleThread]
    /\ UNCHANGED <<CacheSizeMax, Compression, files, cache, cacheSize, index,
                   tasks, panicked, written, erased>>
    /\ UNCHANGED <<call, page, pager, fvars, wr, feed, initialized>>

\* OrderedStore.IsIndexed(k).
IsIndexed(k) == k \in tree

NextOrdered ==
    \/ \E t \in Threads, k \in InputKeys, v \in Values : OrderedWrite(t, k, v)
    \/ \E t \in Threads, k \in InputKeys : OrderedErase(t, k)
    \/ \E t \in Threads : OrderedIndex(t)

\* NewOrderedStore over an empty baseDir, with the flat transform and no
\* cache, called by the goroutines of Threads.
InitOrdered == New(0, FALSE, "flat")

SpecOrdered == InitOrdered /\ [][NextOrdered]_vars

\* ------------------------------------------------------------- lock
\* The store with Diskv.write taken step by step.  The embedded
\* sync.RWMutex: Lock returns when no goroutine holds the mutex, RLock when
\* no writer holds it.  Every other holder runs its body in one step, so the
\* mutex is held between two steps only by the goroutine inside write.
Lock == wr.pc = "idle"
RLock == wr.pc = "idle"

\* Diskv.write up to d.Lock(); ensurePath has nothing to make under the flat
\* transform.  The empty key is turned away before the mutex is asked for.
WriteLock(key, val) ==
    /\ ~panicked
    /\ key # EmptyKey
    /\ Lock
    /\ wr' = [pc |-> "open", key |-> key, val |-> val]
    /\ UNCHANGED <<dvars, ivars, fvars, cvars>>

\* os.OpenFile with O_WRONLY|O_CREATE|O_TRUNC: the file exists and is empty.
WriteOpen ==
    /\ ~panicked
    /\ wr.pc = "open"
    /\ files' = Put(files, wr.key, <<>>)
    /\ wr' = [wr EXCEPT !.pc = "copy"]
    /\ UNCHANGED <<CacheSizeMax, Compression, cache, cacheSize, index, tasks,
                   panicked, last, written, erased>>
    /\ UNCHANGED <<ivars, fvars, cvars>>

\* maybeWriteCompressed: the next byte reaches the file.
WriteCopy ==
    /\ ~panicked
    /\ wr.pc = "copy"
    /\ LET data == maybeWriteCompressed(wr.val)
           n == Len(files[wr.key])
       IN /\ n < Len(data)
          /\ files' = Put(files, wr.key, Append(files[wr.key], data[n + 1]))
    /\ UNCHANGED <<CacheSizeMax, Compression, cache, cacheSize, index, tasks,
                   panicked, last, written, erased, wr>>
    /\ UNCHANGED <<ivars, fvars, cvars>>

\* An end of Diskv.write that leaves the cache entry of the key in place.
WriteUnlock_KeepCache ==
    /\ ~panicked
    /\ wr.pc = "copy"
    /\ files[wr.key] = maybeWriteCompressed(wr.val)
    /\ index' = index \cup {wr.key}
    /\ last' = Event("Write", wr.key, wr.val, FALSE)
    /\ written' = Put(written, wr.key, wr.val)
    /\ erased' = [erased EXCEPT ![wr.key] = FALSE]
    /\ wr' = IdleWriter
    /\ UNCHANGED <<CacheSizeMax, Compression, files, cache, cacheSize, tasks,
                   panicked>>
    /\ UNCHANGED <<ivars, fvars, cvars>>

\* The end of Diskv.write: f.Close, Index.Insert, delete(d.cache, key) and
\* the deferred d.Unlock().
WriteUnlock ==
    /\ ~panicked
    /\ wr.pc = "copy"
    /\ files[wr.key] = maybeWriteCompressed(wr.val)
    /\ index' = index \cup {wr.key}
    /\ cache' = Remove(cache, wr.key)
    /\ last' = Event("Write", wr.key, wr.val, FALSE)
    /\ written' = Put(written, wr.key, wr.val)
    /\ erased' = [erased EXCEPT ![wr.key] = FALSE]
    /\ wr' = IdleWriter
    /\ UNCHANGED <<CacheSizeMax, Compression, files, cacheSize, tasks, panicked>>
    /\ UNCHANGED <<ivars, fvars, cvars>>

\* Diskv.Read between d.RLock() and the deferred d.RUnlock().
Read(key) == RLock /\ (ReadHit(key) \/ ReadMiss(key))

\* Erase, EraseAll and cacheWithoutLock between d.Lock() and d.Unlock().
LockedErase(key) == Lock /\ Erase(key)
LockedEraseAll == Lock /\ EraseAll
cacheWithoutLock(key, val) == Lock /\ CacheTask(key, val)

NextLock ==
    \/ \E key \in InputKeys, val \in Values : WriteLock(key, val)
    \/ WriteOpen
    \/ WriteCopy
    \/ WriteUnlock
    \/ \E key \in InputKeys : Read(key)
    \/ \E key \in InputKeys : LockedErase(key)
    \/ LockedEraseAll
    \/ \E key \in Keys, val \in FileValues : cacheWithoutLock(key, val)

SpecLock == Init /\ [][NextLock]_vars

\* ------------------------------------------------------------- goroutines
\* The store called by the goroutines of Threads, every method taken from
\* its Lock/RLock to its deferred Unlock/RUnlock, with the goroutines that
\* Read starts.  th[t].pc: "idle" outside every call, "lock" inside
\* Lock/RLock, "pending" inside Lock with the writer announced, "held" past
\* it, "index" inside the Index's Lock.  wr is the goroutine of
\* cacheWithoutLock that is the announced writer or has the mutex.
Ops == {"Write", "Read", "Erase", "EraseAll", "Keys"}

\* The keys and values the goroutines call the store with.
FairKeys == {"a"}
FairValues == {val \in Values : Len(val) <= 1}

\* What no goroutine changes.
svars == <<CacheSizeMax, Compression, last, written, erased, tree, call, page,
           pager, Transform, fs, yielded, errno, feed, initialized>>

\* The goroutines inside Read are counted with the goroutines they will start.
Reading == {t \in Threads : th[t].op = "Read" /\ th[t].pc # "idle"}

\* d.RWMutex: a writer is announced (sync.RWMutex.Lock has the writers'
\* mutex and waits for the readers to leave; RLock blocks from then on),
\* it is held for writing, it is held for reading.  The Index's RWMutex:
\* its writer is announced, it is held for reading (for writing it is held
\* inside one step only).
WriteOps == {"Write", "Erase", "EraseAll"}
Pending == wr.pc = "pending" \/ \E t \in Threads :
              th[t].op \in WriteOps /\ th[t].pc = "pending"
Writer == wr.pc = "cache" \/ \E t \in Threads :
             th[t].op \in WriteOps /\ th[t].pc \in {"held", "index"}
Readers == {t \in Threads : th[t].op = "Read" /\ th[t].pc \notin {"idle", "lock"}}
IndexPending == \E t \in Threads : th[t].pc = "index"
IndexReaders == {t \in Threads : th[t].op = "Keys" /\ th[t].pc = "held"}

\* A goroutine calls Write, Read, Erase, EraseAll or Index.Keys and reaches
\* the Lock or RLock at its top.
Call(t, op, key, val) ==
    /\ ~panicked
    /\ th[t].pc = "idle"
    /\ op = "Read" => BagCardinality(tasks) + Cardinality(Reading) < MaxTasks
    /\ op # "Write" => val = <<>>
    /\ op \in {"EraseAll", "Keys"} <=> key = EmptyKey
    /\ th' = [th EXCEPT ![t] = [pc |-> "lock", op |-> op, key |-> key, val |-> val]]
    /\ UNCHANGED <<files, cache, cacheSize, index, tasks, panicked, wr, svars>>

\* d.Lock() gets the writers' mutex and announces the writer.
Announce(t) ==
    /\ ~panicked
    /\ th[t].pc = "lock"
    /\ th[t].op \in WriteOps
    /\ ~Pending /\ ~Writer
    /\ th' = [th EXCEPT ![t].pc = "pending"]
    /\ UNCHANGED <<files, cache, cacheSize, index, tasks, panicked, wr, svars>>

\* d.Lock(), d.RLock() and i.RLock() return.
Acquire(t) ==
    /\ ~panicked
    /\ CASE th[t].op = "Read" -> th[t].pc = "lock" /\ ~Pending /\ ~Writer
         [] th[t].op = "Keys" -> th[t].pc = "lock" /\ ~IndexPending
         [] OTHER -> th[t].pc = "pending" /\ Readers = {}
    /\ th' = [th EXCEPT ![t].pc = "held"]
    /\ UNCHANGED <<files, cache, cacheSize, index, tasks, panicked, wr, svars>>

\* A Read that returns only when the goroutine it started has cached the value.
ReadReturn_WaitForTask(t) ==
    /\ ~panicked
    /\ th[t].op = "Read"
    /\ LET key == th[t].key
       IN \/ /\ th[t].pc = "held"
             /\ key \in DOMAIN cache \/ key \notin DOMAIN files
             /\ th' = [th EXCEPT ![t] = IdleThread]
             /\ UNCHANGED tasks
          \/ /\ th[t].pc = "held"
             /\ key \notin DOMAIN cache /\ key \in DOMAIN files
             /\ tasks' = tasks (+) SetToBag({<<key, files[key]>>})
             /\ th' = [th EXCEPT ![t].pc = "wait", ![t].val = files[key]]
          \/ /\ th[t].pc = "wait"
             /\ ~BagIn(<<key, th[t].val>>, tasks)
             /\ wr.pc = "idle"
             /\ th' = [th EXCEPT ![t] = IdleThread]
             /\ UNCHANGED tasks
    /\ UNCHANGED <<files, cache, cacheSize, index, panicked, wr, svars>>

\* Diskv.Read from the cache check to the deferred d.RUnlock(): a miss whose
\* file is read starts the caching goroutine and returns without it.
ReadReturn(t) ==
    /\ ~panicked
    /\ th[t].op = "Read"
    /\ th[t].pc = "held"
    /\ LET key == th[t].key
       IN tasks' = IF key \notin DOMAIN cache /\ key \in DOMAIN files
                   THEN tasks (+) SetToBag({<<key, files[key]>>})
                   ELSE tasks
    /\ th' = [th EXCEPT ![t] = IdleThread]
    /\ UNCHANGED <<files, cache, cacheSize, index, panicked, wr, svars>>

\* Diskv.write from ensurePath to f.Close(); the goroutine is then inside
\* d.Index.Insert, at its i.Lock().
WriteFile(t) ==
    /\ ~panicked
    /\ th[t].op = "Write"
    /\ th[t].pc = "held"
    /\ files' = Put(files, th[t].key, maybeWriteCompressed(th[t].val))
    /\ th' = [th EXCEPT ![t].pc = "index"]
    /\ UNCHANGED <<cache, cacheSize, index, tasks, panicked, wr, svars>>

\* Diskv.Erase up to d.Index.Delete, at its i.Lock(): the cache entry is gone.
EraseCache(t) ==
    /\ ~panicked
    /\ th[t].op = "Erase"
    /\ th[t].pc = "held"
    /\ cache' = Remove(cache, th[t].key)
    /\ cacheSize' = IF th[t].key \in DOMAIN cache
                    THEN cacheSize - Len(cache[th[t].key])
                    ELSE cacheSize
    /\ th' = [th EXCEPT ![t].pc = "index"]
    /\ UNCHANGED <<files, index, tasks, panicked, wr, svars>>

\* i.Lock() returns; Insert or Delete, i.Unlock(), the rest of write or
\* Erase and the deferred d.Unlock().
IndexUpdate(t) ==
    /\ ~panicked
    /\ th[t].pc = "index"
    /\ IndexReaders = {}
    /\ IF th[t].op = "Write"
       THEN /\ index' = index \cup {th[t].key}
            /\ cache' = Remove(cache, th[t].key)
            /\ UNCHANGED files
       ELSE /\ index' = index \ {th[t].key}
            /\ files' = Remove(files, th[t].key)
            /\ UNCHANGED cache
    /\ th' = [th EXCEPT ![t] = IdleThread]
    /\ UNCHANGED <<cacheSize, tasks, panicked, wr, svars>>

\* Diskv.EraseAll past d.Lock() to the deferred d.Unlock().
EraseAllReturn(t) ==
    /\ ~panicked
    /\ th[t].op = "EraseAll"
    /\ th[t].pc = "held"
    /\ cache' = EmptyMap
    /\ cacheSize' = 0
    /\ files' = EmptyMap
    /\ th' = [th EXCEPT ![t] = IdleThread]
    /\ UNCHANGED <<index, tasks, panicked, wr, svars>>

\* LLRBIndex.Keys past i.RLock() to the deferred i.RUnlock(): the channel
\* is returned, the goroutine that feeds it takes no lock.
KeysReturn(t) ==
    /\ ~panicked
    /\ th[t].op = "Keys"
    /\ th[t].pc = "held"
    /\ th' = [th EXCEPT ![t] = IdleThread]
    /\ UNCHANGED <<files, cache, cacheSize, index, tasks, panicked, wr, svars>>

\* A goroutine Read started runs: its d.Lock() gets the writers' mutex and
\* announces the writer.
TaskLock(key, val) ==
    /\ ~panicked
    /\ BagIn(<<key, val>>, tasks)
    /\ ~Pending /\ ~Writer
    /\ tasks' = tasks (-) SetToBag({<<key, val>>})
    /\ wr' = [pc |-> "pending", key |-> key, val |-> val]
    /\ UNCHANGED <<files, cache, cacheSize, index, panicked, th, svars>>

\* d.Lock() returns in that goroutine.
TaskAcquire ==
    /\ ~panicked
    /\ wr.pc = "pending"
    /\ Readers = {}
    /\ wr' = [wr EXCEPT !.pc = "cache"]
    /\ UNCHANGED <<files, cache, cacheSize, index, tasks, panicked, th, svars>>

\* cacheWithLock and the deferred d.Unlock() in that goroutine.
TaskReturn ==
    /\ ~panicked
    /\ wr.pc = "cache"
    /\ \E o \in cacheWithLock(cache, cacheSize, wr.key, wr.val) :
          /\ cache' = o.cache
          /\ cacheSize' = o.cacheSize
          /\ panicked' = o.panic
    /\ wr' = IdleWriter
    /\ UNCHANGED <<files, index, tasks, th, svars>>

\* The steps goroutines take inside the store.
Step ==
    \/ \E t \in Threads : Announce(t)
    \/ \E t \in Threads : Acquire(t)
    \/ \E t \in Threads : ReadReturn(t)
    \/ \E t \in Threads : WriteFile(t)
    \/ \E t \in Threads : EraseCache(t)
    \/ \E t \in Threads : IndexUpdate(t)
    \/ \E t \in Threads : EraseAllReturn(t)
    \/ \E t \in Threads : KeysReturn(t)
    \/ \E key \in FairKeys, val \in FairValues : TaskLock(key, val)
    \/ TaskAcquire
    \/ TaskReturn

NextFair ==
    \/ \E t \in Threads, op \in Ops, key \in FairKeys \cup {EmptyKey},
          val \in FairValues : Call(t, op, key, val)
    \/ Step

InitFair == New(MaxCacheSizeMax, FALSE, "flat")

\* The Go scheduler runs every goroutine that can run.  The writers' mutex
\* (a sync.Mutex, which serves a starved waiter first) comes to every
\* writer that waits for it, and an Unlock lets in the readers that were
\* blocked by the writer before the next writer is announced.
Fairness ==
    /\ \A t \in Threads : SF_vars(Announce(t))
    /\ \A t \in Threads : SF_vars(Acquire(t))
    /\ \A t \in Threads : WF_vars(ReadReturn(t))
    /\ \A t \in Threads : WF_vars(WriteFile(t))
    /\ \A t \in Threads : WF_vars(EraseCache(t))
    /\ \A t \in Threads : WF_vars(IndexUpdate(t))
    /\ \A t \in Threads : WF_vars(EraseAllReturn(t))
    /\ \A t \in Threads : WF_vars(KeysReturn(t))
    /\ \A key \in FairKeys, val \in FairValues : SF_vars(TaskLock(key, val))
    /\ WF_vars(TaskAcquire)
    /\ WF_vars(TaskReturn)

SpecFair == InitFair /\ [][NextFair]_vars /\ Fairness

\* ------------------------------------------------------------- index
\* strLess, the LessFunction of the tests: a.(string) < b.(string).
Less(a, b) == Code[a] < Code[b]

\* llrb.Tree.Min and llrb.Tree.Max under the tree's less function.
TreeMin(t) == CHOOSE x \in t : \A y \in t : ~Less(y, x)
TreeMax(t) == CHOOSE x \in t : \A y \in t : ~Less(x, y)

\* The keys of a set in ascending order.
RECURSIVE Ascending(_)
Ascending(S) ==
    IF S = {} THEN <<>>
    ELSE LET m == TreeMin(S) IN <<m>> \o Ascending(S \ {m})

\* llrb.Tree.IterRange(lower, upper): what the channel delivers, every
\* element E of the tree with lower <= E < upper in ascending order.
IterRange(t, lower, upper) ==
    Ascending({e \in t : ~Less(e, lower) /\ Less(e, upper)})

\* "<-c" when skipFirst: one element is taken off the channel, if it has one.
SkipFirst(c, skipFirst) == IF skipFirst /\ c # <<>> THEN Tail(c) ELSE c

\* The first n elements a channel delivers.
Take(c, n) == SubSeq(c, 1, IF n < Len(c) THEN n ELSE Len(c))

\* An LLRBIndex.Keys without the send of tree.Max() that makes up for
\* IterRange's exclusive upper bound.
LLRBIndexKeys_NoMaxHack(t, from, n) ==
    IF Cardinality(t) <= 0 THEN <<>>
    ELSE LET skipFirst == ~(from = EmptyKey \/ from \notin t)
             start == IF skipFirst THEN from ELSE TreeMin(t)
         IN Take(SkipFirst(IterRange(t, start, TreeMax(t)), skipFirst), n)

\* LLRBIndex.Keys(from, n): the keys received from the channel it returns.
LLRBIndexKeys(t, from, n) ==
    IF Cardinality(t) <= 0 THEN <<>>
    ELSE LET skipFirst == ~(from = EmptyKey \/ from \notin t)
             start == IF skipFirst THEN from ELSE TreeMin(t)
             c0 == SkipFirst(IterRange(t, start, TreeMax(t)), skipFirst)
             sent == Len(Take(c0, n))
             wasClosed == Len(c0) < n
         IN Take(c0, n) \o (IF wasClosed /\ sent < n THEN <<TreeMax(t)>> ELSE <<>>)

\* An OrderedStore.KeysFrom that takes every key the channel delivers.
OrderedStoreKeysFrom_Unbounded(t, k, count) ==
    IF Cardinality(t) <= 0 THEN <<>>
    ELSE LET skipFirst == ~(k = EmptyKey \/ k \notin t)
             start == IF skipFirst THEN k ELSE TreeMin(t)
             c == SkipFirst(IterRange(t, start, TreeMax(t)), skipFirst)
         IN c \o <<TreeMax(t)>>

\* OrderedStore.KeysFrom(k, count): the slice it returns.
OrderedStoreKeysFrom(t, k, count) ==
    IF Cardinality(t) <= 0 THEN <<>>
    ELSE LET skipFirst == ~(k = EmptyKey \/ k \notin t)
             start == IF skipFirst THEN k ELSE TreeMin(t)
             c == SkipFirst(IterRange(t, start, TreeMax(t)), skipFirst)
             keys == Take(c, count)
             total == Len(keys)
         IN IF total < count THEN keys \o <<TreeMax(t)>> ELSE keys

\* The call a client makes, by the implementation it uses.
KeysOf(impl, t, from, n) ==
    IF impl = "LLRBIndex" THEN LLRBIndexKeys(t, from, n)
    ELSE OrderedStoreKeysFrom(t, from, n)

Impls == {"LLRBIndex", "OrderedStore"}

\* LLRBIndex.Insert / OrderedStore.Write's index.ReplaceOrInsert(k).
IndexInsert(k) ==
    /\ pager.phase = "idle"
    /\ tree' = tree \cup {k}
    /\ call' = NoCall
    /\ page' = <<>>
    /\ UNCHANGED pager
    /\ UNCHANGED <<dvars, fvars, lvars>>

\* LLRBIndex.Delete / OrderedStore.Erase's index.Delete(k).
IndexDelete(k) ==
    /\ pager.phase = "idle"
    /\ tree' = tree \ {k}
    /\ call' = NoCall
    /\ page' = <<>>
    /\ UNCHANGED pager
    /\ UNCHANGED <<dvars, fvars, lvars>>

\* A call of LLRBIndex.Keys(from, n), its channel drained.
CallKeys(from, n) ==
    /\ pager.phase = "idle"
    /\ call' = [impl |-> "LLRBIndex", from |-> from, n |-> n]
    /\ page' = LLRBIndexKeys(tree, from, n)
    /\ UNCHANGED <<tree, pager>>
    /\ UNCHANGED <<dvars, fvars, lvars>>

\* A call of OrderedStore.KeysFrom(k, count).
CallKeysFrom(k, count) ==
    /\ pager.phase = "idle"
    /\ call' = [impl |-> "OrderedStore", from |-> k, n |-> count]
    /\ page' = OrderedStoreKeysFrom(tree, k, count)
    /\ UNCHANGED <<tree, pager>>
    /\ UNCHANGED <<dvars, fvars, lvars>>

\* A client starts to page through the index, n keys at a time, from the
\* empty cursor; the index does not change until it stops.
PageStart(impl, n) ==
    /\ pager.phase = "idle"
    /\ pager' = [phase |-> "paging", impl |-> impl, cursor |-> EmptyKey, n |-> n,
                 seen |-> <<>>, calls |-> 0]
    /\ call' = NoCall
    /\ page' = <<>>
    /\ UNCHANGED tree
    /\ UNCHANGED <<dvars, fvars, lvars>>

\* The client asks for the next page: keysFrom(cursor, n), the cursor then
\* set to the last key of the page.  An empty page ends the pagination.
PageNext ==
    /\ pager.phase = "paging"
    /\ pager.calls < MaxCalls
    /\ LET p == KeysOf(pager.impl, tree, pager.cursor, pager.n)
       IN /\ call' = [impl |-> pager.impl, from |-> pager.cursor, n |-> pager.n]
          /\ page' = p
          /\ pager' = IF p = <<>>
                      THEN [pager EXCEPT !.phase = "done", !.calls = @ + 1]
                      ELSE [pager EXCEPT !.cursor = p[Len(p)],
                                         !.seen = @ \o p,
                                         !.calls = @ + 1]
    /\ UNCHANGED tree
    /\ UNCHANGED <<dvars, fvars, lvars>>

\* The client stops, after the empty page or when it gives up.
PageStop ==
    /\ pager.phase # "idle"
    /\ pager.phase = "done" \/ pager.calls = MaxCalls
    /\ pager' = IdlePager
    /\ call' = NoCall
    /\ page' = <<>>
    /\ UNCHANGED tree
    /\ UNCHANGED <<dvars, fvars, lvars>>

\* The index of an empty store, as Initialize / ResetOrder leaves it.
InitIndex ==
    /\ Init
    /\ CacheSizeMax = 0

NextIndex ==
    \/ \E k \in IndexKeys : IndexInsert(k)
    \/ \E k \in IndexKeys : IndexDelete(k)
    \/ \E from \in IndexKeys \cup {EmptyKey}, n \in Counts : CallKeys(from, n)
    \/ \E k \in IndexKeys \cup {EmptyKey}, count \in Counts : CallKeysFrom(k, count)
    \/ \E impl \in Impls, n \in 1..MaxCount : PageStart(impl, n)
    \/ PageNext
    \/ PageStop

SpecIndex == InitIndex /\ [][NextIndex]_vars

\* ------------------------------------------------------------- index, concurrent
\* LLRBIndex.Keys(from, n) up to its return, under the read lock: the empty
\* tree gives a closed channel; otherwise from and skipFirst are settled,
\* upper is tree.Max() and, when skipFirst, the first element is taken off c0.
\* The feeding goroutine is started and runs after the lock is released.
KeysCall(from, n) ==
    /\ pager.phase = "idle"
    /\ feed.pc = "idle"
    /\ feed' = IF Cardinality(tree) <= 0
               THEN [IdleFeed EXCEPT !.pc = "done", !.n = n]
               ELSE LET skipFirst == ~(from = EmptyKey \/ from \notin tree)
                    IN [pc |-> "feeding", n |-> n, sent |-> 0, at |-> tree,
                        pos |-> IF skipFirst THEN from ELSE TreeMin(tree),
                        incl |-> ~skipFirst, upper |-> TreeMax(tree),
                        out |-> <<>>]
    /\ UNCHANGED <<dvars, ivars, fvars, wr, th, initialized>>

\* What c0 has left to deliver when its walk goes through the tree t: the
\* elements after the last one delivered and below upper.
Rest(t) ==
    {e \in t : /\ Less(e, feed.upper)
               /\ IF feed.incl THEN ~Less(e, feed.pos) ELSE Less(feed.pos, e)}

\* One turn of the feeding goroutine's loop that receives a key from c0 and
\* sends it on c.  IterRange's goroutine walks the tree without the lock, so
\* it may see the tree of the call or the tree as Insert and Delete have left
\* it since.
FeedStep ==
    /\ feed.pc = "feeding"
    /\ feed.sent < feed.n
    /\ \E t \in {feed.at, tree} :
          /\ Rest(t) # {}
          /\ LET key == TreeMin(Rest(t))
             IN feed' = [feed EXCEPT !.sent = @ + 1, !.pos = key,
                                     !.incl = FALSE, !.out = Append(@, key)]
    /\ UNCHANGED <<dvars, ivars, fvars, wr, th, initialized>>

\* The end of the feeding goroutine: the loop is over with n keys sent, or
\* c0 was closed first and tree.Max(), read now, is sent; then close(c).
\* Max() of an emptied tree is nil, and nil.(string) aborts.
FeedClose ==
    /\ feed.pc = "feeding"
    /\ \/ /\ feed.sent >= feed.n
          /\ feed' = [feed EXCEPT !.pc = "done"]
       \/ /\ feed.sent < feed.n
          /\ \E t \in {feed.at, tree} : Rest(t) = {}
          /\ feed' = IF tree = {}
                     THEN [feed EXCEPT !.pc = "panic"]
                     ELSE [feed EXCEPT !.pc = "done",
                                       !.out = Append(@, TreeMax(tree))]
    /\ UNCHANGED <<dvars, ivars, fvars, wr, th, initialized>>

\* The consumer has drained the closed channel.
FeedDrained ==
    /\ feed.pc = "done"
    /\ feed' = IdleFeed
    /\ UNCHANGED <<dvars, ivars, fvars, wr, th, initialized>>

NextIndexRace ==
    \/ \E k \in IndexKeys : IndexInsert(k)
    \/ \E k \in IndexKeys : IndexDelete(k)
    \/ \E from \in IndexKeys \cup {EmptyKey}, n \in Counts : KeysCall(from, n)
    \/ FeedStep
    \/ FeedClose
    \/ FeedDrained

SpecIndexRace == InitIndex /\ [][NextIndexRace]_vars

\* ------------------------------------------------------------- tree
\* The directory tree under BasePath, for the transforms of the tests: the
\* flat one (no segment), the default one (one empty segment) and
\* blockTransform(BlockSize) of keys_test.  Go strings are byte sequences;
\* Chars gives the bytes of every string the tree spec computes with: the
\* keys, the segments blockTransform cuts from them, and the prefixes asked
\* for.
BlockSize == 2
PathKeys == {"ab", "abab", "abcd", "a*cd"}
Strings == PathKeys \cup {EmptyKey, "a", "a*", "abc", "b", "cd"}
Chars == [s \in Strings |->
            CASE s = "" -> <<>>
              [] s = "a" -> <<"a">>
              [] s = "a*" -> <<"a", "*">>
              [] s = "a*cd" -> <<"a", "*", "c", "d">>
              [] s = "ab" -> <<"a", "b">>
              [] s = "abab" -> <<"a", "b", "a", "b">>
              [] s = "abc" -> <<"a", "b", "c">>
              [] s = "abcd" -> <<"a", "b", "c", "d">>
              [] s = "b" -> <<"b">>
              [] s = "cd" -> <<"c", "d">>]
Str(cs) == CHOOSE s \in Strings : Chars[s] = cs
Transforms == {"flat", "default", "block"}

\* blockTransform(BlockSize): len(s) / blockSize slices of blockSize bytes.
blockTransform(s) ==
    LET sliceSize == Len(Chars[s]) \div BlockSize
    IN [i \in 1..sliceSize |->
           Str(SubSeq(Chars[s], (i - 1) * BlockSize + 1, i * BlockSize))]

\* d.Transform(key).
pathlist(key) ==
    CASE Transform = "flat" -> <<>>
      [] Transform = "default" -> <<"">>
      [] Transform = "block" -> blockTransform(key)

\* A path is the sequence of names below BasePath; <<>> is BasePath itself.
\* The operating system skips the empty names of "a//b" and "a/".
Clean(p) == SelectSeq(p, LAMBDA x : x # EmptyKey)

\* Diskv.pathFor and Diskv.completeFilename.
pathFor(key) == Clean(pathlist(key))
completeFilename(key) == Clean(pathlist(key) \o <<key>>)

DirNode == [dir |-> TRUE, data |-> <<>>]
FileNode(val) == [dir |-> FALSE, data |-> val]
Prefix(p, i) == SubSeq(p, 1, i)
Children(f, d) == {q \in DOMAIN f : Len(q) = Len(d) + 1 /\ Prefix(q, Len(d)) = d}

\* os.MkdirAll(path): an error when the path or one of its ancestors is a
\* file, and then nothing is made; else every missing directory is made.
MkdirAll(f, path) ==
    IF \E i \in 0..Len(path) : Prefix(path, i) \in DOMAIN f /\ ~f[Prefix(path, i)].dir
    THEN [fs |-> f, err |-> TRUE]
    ELSE LET made == {Prefix(path, i) : i \in 0..Len(path)}
         IN [fs |-> [q \in DOMAIN f \cup made |-> IF q \in DOMAIN f THEN f[q] ELSE DirNode],
             err |-> FALSE]

\* The error of walking to path: ENOTDIR when a name on the way is a file,
\* ENOENT when a name on the way, or the last one, is missing.
Lookup(f, path) ==
    IF \E i \in 0..(Len(path) - 1) : Prefix(path, i) \in DOMAIN f /\ ~f[Prefix(path, i)].dir
    THEN "ENOTDIR"
    ELSE IF path \notin DOMAIN f THEN "ENOENT" ELSE "nil"

\* An os.Stat that takes every entry for a file.
Stat_NeverDir(f, path) ==
    IF Lookup(f, path) # "nil" THEN [dir |-> FALSE, err |-> Lookup(f, path)]
    ELSE [dir |-> FALSE, err |-> "nil"]

\* os.Stat(path): the error, or whether the entry is a directory.
Stat(f, path) ==
    IF Lookup(f, path) # "nil" THEN [dir |-> FALSE, err |-> Lookup(f, path)]
    ELSE [dir |-> f[path].dir, err |-> "nil"]

\* ioutil.ReadFile(path), and os.Open(path) followed by io.Copy: the open
\* of a directory succeeds and its first read fails with EISDIR.
ReadFile(f, path) ==
    IF Lookup(f, path) # "nil" THEN [val |-> <<>>, err |-> Lookup(f, path)]
    ELSE IF f[path].dir THEN [val |-> <<>>, err |-> "EISDIR"]
    ELSE [val |-> f[path].data, err |-> "nil"]

\* path.Match for one name: * is any run of bytes, ? any one byte.
RECURSIVE Match(_, _)
Match(pattern, name) ==
    IF pattern = <<>> THEN name = <<>>
    ELSE IF Head(pattern) = "*"
         THEN Match(Tail(pattern), name) \/ (name # <<>> /\ Match(pattern, Tail(name)))
         ELSE /\ name # <<>>
              /\ Head(pattern) = "?" \/ Head(pattern) = Head(name)
              /\ Match(Tail(pattern), Tail(name))

\* filepath.Glob(dir + "/*"), dir being BasePath joined with pslice: the
\* names of dir are patterns too, so every entry one level below a path
\* that matches pslice name by name is found.
Glob(f, pslice) ==
    LET dir == Clean(pslice)
    IN {q \in DOMAIN f :
           /\ Len(q) = Len(dir) + 1
           /\ \A i \in 1..Len(dir) : Match(Chars[dir[i]], Chars[q[i]])}

\* The loop of pruneDirs from its i-th round on.
RECURSIVE pruneLoop(_, _, _)
pruneLoop(f, segs, i) ==
    IF i >= Len(segs) THEN [fs |-> f, err |-> FALSE, panic |-> FALSE]
    ELSE LET pslice == Prefix(segs, Len(segs) - i)
             dir == Clean(pslice)
         IN IF dir \notin DOMAIN f THEN [fs |-> f, err |-> TRUE, panic |-> FALSE]
            ELSE IF ~f[dir].dir THEN [fs |-> f, err |-> FALSE, panic |-> TRUE]
            ELSE IF Glob(f, pslice) # {} THEN [fs |-> f, err |-> FALSE, panic |-> FALSE]
            ELSE IF Children(f, dir) # {} THEN [fs |-> f, err |-> TRUE, panic |-> FALSE]
            ELSE pruneLoop(Remove(f, dir), segs, i + 1)

\* Diskv.pruneDirs.
pruneDirs(f, key) == pruneLoop(f, pathlist(key), 0)

\* A walker that sends the name of every entry, directories included.
walker_AllEntries(f) ==
    LET sent == {q \in DOMAIN f : Len(q) > 0}
        names == {q[Len(q)] : q \in sent}
    IN [name \in names |-> Cardinality({q \in sent : q[Len(q)] = name})]

\* filepath.Walk(BasePath, walker(c)): the names sent down the channel, each
\* as often as the walk meets a non-directory entry of that name.  The walk
\* reaches an entry through directories only; nothing is sent when BasePath
\* does not exist.
walker(f) ==
    LET sent == {q \in DOMAIN f :
                    /\ ~f[q].dir
                    /\ \A i \in 0..(Len(q) - 1) :
                          Prefix(q, i) \in DOMAIN f /\ f[Prefix(q, i)].dir}
        names == {q[Len(q)] : q \in sent}
    IN [name \in names |-> Cardinality({q \in sent : q[Len(q)] = name})]

\* strings.HasPrefix(s, prefix).
HasPrefix(s, prefix) ==
    /\ Len(Chars[prefix]) <= Len(Chars[s])
    /\ SubSeq(Chars[s], 1, Len(Chars[prefix])) = Chars[prefix]

\* A Diskv.write that inserts the key into the index before it opens the file.
DiskvWrite_InsertFirst(key, val) ==
    /\ ~panicked
    /\ yielded' = EmptyBag
    /\ IF key = EmptyKey
       THEN /\ last' = Event("Write", key, val, TRUE)
            /\ errno' = "empty key"
            /\ UNCHANGED <<fs, index, cache>>
       ELSE LET made == MkdirAll(fs, pathFor(key))
                filename == completeFilename(key)
            IN /\ index' = index \cup {key}
               /\ IF made.err
                  THEN /\ last' = Event("Write", key, val, TRUE)
                       /\ errno' = "ENOTDIR"
                       /\ UNCHANGED <<fs, cache>>
                  ELSE IF filename \in DOMAIN made.fs /\ made.fs[filename].dir
                  THEN /\ fs' = made.fs
                       /\ last' = Event("Write", key, val, TRUE)
                       /\ errno' = "EISDIR"
                       /\ UNCHANGED cache
                  ELSE /\ fs' = Put(made.fs, filename, FileNode(maybeWriteCompressed(val)))
                       /\ cache' = Remove(cache, key)
                       /\ last' = Event("Write", key, val, FALSE)
                       /\ errno' = "nil"
    /\ UNCHANGED <<CacheSizeMax, Compression, files, cacheSize, tasks, panicked,
                   written, erased, Transform>>
    /\ UNCHANGED <<ivars, lvars>>

\* A Diskv.write without the check of the key's length.
DiskvWrite_NoKeyCheck(key, val) ==
    /\ ~panicked
    /\ yielded' = EmptyBag
    /\ LET made == MkdirAll(fs, pathFor(key))
           filename == completeFilename(key)
       IN IF made.err
          THEN /\ last' = Event("Write", key, val, TRUE)
               /\ errno' = "ENOTDIR"
               /\ UNCHANGED <<fs, index, cache>>
          ELSE IF filename \in DOMAIN made.fs /\ made.fs[filename].dir
          THEN /\ fs' = made.fs
               /\ last' = Event("Write", key, val, TRUE)
               /\ errno' = "EISDIR"
               /\ UNCHANGED <<index, cache>>
          ELSE /\ fs' = Put(made.fs, filename, FileNode(maybeWriteCompressed(val)))
               /\ index' = index \cup {key}
               /\ cache' = Remove(cache, key)
               /\ last' = Event("Write", key, val, FALSE)
               /\ errno' = "nil"
    /\ UNCHANGED <<CacheSizeMax, Compression, files, cacheSize, tasks, panicked,
                   written, erased, Transform>>
    /\ UNCHANGED <<ivars, lvars>>

\* Diskv.write on the directory tree: ensurePath, os.OpenFile with
\* O_WRONLY|O_CREATE|O_TRUNC (which fails on a directory), the copy, then the
\* index and the cache.
DiskvWrite(key, val) ==
    /\ ~panicked
    /\ yielded' = EmptyBag
    /\ IF key = EmptyKey
       THEN /\ last' = Event("Write", key, val, TRUE)
            /\ errno' = "empty key"
            /\ UNCHANGED <<fs, index, cache>>
       ELSE LET made == MkdirAll(fs, pathFor(key))
                filename == completeFilename(key)
            IN IF made.err
               THEN /\ last' = Event("Write", key, val, TRUE)
                    /\ errno' = "ENOTDIR"
                    /\ UNCHANGED <<fs, index, cache>>
               ELSE IF filename \in DOMAIN made.fs /\ made.fs[filename].dir
               THEN /\ fs' = made.fs
                    /\ last' = Event("Write", key, val, TRUE)
                    /\ errno' = "EISDIR"
                    /\ UNCHANGED <<index, cache>>
               ELSE /\ fs' = Put(made.fs, filename, FileNode(maybeWriteCompressed(val)))
                    /\ index' = index \cup {key}
                    /\ cache' = Remove(cache, key)
                    /\ last' = Event("Write", key, val, FALSE)
                    /\ errno' = "nil"
    /\ UNCHANGED <<CacheSizeMax, Compression, files, cacheSize, tasks, panicked,
                   written, erased, Transform>>
    /\ UNCHANGED <<ivars, lvars>>

\* Diskv.Erase on the directory tree: the cache and the index first, then
\* os.Stat, "bad key" on a directory, os.Remove and pruneDirs, whose error
\* is dropped.
DiskvErase(key) ==
    /\ ~panicked
    /\ yielded' = EmptyBag
    /\ cache' = Remove(cache, key)
    /\ cacheSize' = IF key \in DOMAIN cache THEN cacheSize - Len(cache[key])
                    ELSE cacheSize
    /\ index' = index \ {key}
    /\ LET filename == completeFilename(key)
           s == Stat(fs, filename)
       IN IF s.err # "nil"
          THEN /\ last' = Event("Erase", key, <<>>, TRUE)
               /\ errno' = s.err
               /\ UNCHANGED <<fs, panicked>>
          ELSE IF s.dir
          THEN /\ last' = Event("Erase", key, <<>>, TRUE)
               /\ errno' = "bad key"
               /\ UNCHANGED <<fs, panicked>>
          ELSE LET pruned == pruneDirs(Remove(fs, filename), key)
               IN /\ fs' = pruned.fs
                  /\ panicked' = pruned.panic
                  /\ last' = Event("Erase", key, <<>>, FALSE)
                  /\ errno' = "nil"
    /\ UNCHANGED <<CacheSizeMax, Compression, files, tasks, written, erased,
                   Transform>>
    /\ UNCHANGED <<ivars, lvars>>

\* Diskv.EraseAll on the directory tree: os.RemoveAll(BasePath).
DiskvEraseAll ==
    /\ ~panicked
    /\ yielded' = EmptyBag
    /\ cache' = EmptyMap
    /\ cacheSize' = 0
    /\ fs' = EmptyMap
    /\ last' = Event("EraseAll", EmptyKey, <<>>, FALSE)
    /\ errno' = "nil"
    /\ UNCHANGED <<CacheSizeMax, Compression, files, index, tasks, panicked,
                   written, erased, Transform>>
    /\ UNCHANGED <<ivars, lvars>>

\* Diskv.Keys, the channel drained to its close.
DiskvKeys ==
    /\ ~panicked
    /\ yielded' = walker(fs)
    /\ last' = Event("Keys", EmptyKey, <<>>, FALSE)
    /\ errno' = "nil"
    /\ UNCHANGED <<CacheSizeMax, Compression, files, cache, cacheSize, index,
                   tasks, panicked, written, erased, Transform, fs>>
    /\ UNCHANGED <<ivars, lvars>>

\* A keysPrefix that keeps the keys whose first segment is the prefix.
KeysPrefix_FirstSegment(prefix) ==
    /\ ~panicked
    /\ LET all == walker(fs)
           kept == {k \in DOMAIN all :
                       Len(Chars[k]) >= BlockSize
                          /\ SubSeq(Chars[k], 1, BlockSize) = Chars[prefix]}
       IN yielded' = [k \in kept |-> all[k]]
    /\ last' = Event("KeysPrefix", prefix, <<>>, FALSE)
    /\ errno' = "nil"
    /\ UNCHANGED <<CacheSizeMax, Compression, files, cache, cacheSize, index,
                   tasks, panicked, written, erased, Transform, fs>>
    /\ UNCHANGED <<ivars, lvars>>

\* keysPrefix(prefix): listAllKeys() filtered by string-prefix match.
KeysPrefix(prefix) ==
    /\ ~panicked
    /\ LET all == walker(fs)
           kept == {k \in DOMAIN all : HasPrefix(k, prefix)}
       IN yielded' = [k \in kept |-> all[k]]
    /\ last' = Event("KeysPrefix", prefix, <<>>, FALSE)
    /\ errno' = "nil"
    /\ UNCHANGED <<CacheSizeMax, Compression, files, cache, cacheSize, index,
                   tasks, panicked, written, erased, Transform, fs>>
    /\ UNCHANGED <<ivars, lvars>>

\* A failing Diskv.write that drops the key's cache entry before the copy.
DiskvWriteFail_Invalidate(key, val, n) ==
    /\ ~panicked
    /\ key # EmptyKey
    /\ n \in 0..Len(maybeWriteCompressed(val))
    /\ LET made == MkdirAll(fs, pathFor(key))
           filename == completeFilename(key)
       IN /\ ~made.err
          /\ ~(filename \in DOMAIN made.fs /\ made.fs[filename].dir)
          /\ fs' = Put(made.fs, filename,
                       FileNode(SubSeq(maybeWriteCompressed(val), 1, n)))
    /\ cache' = Remove(cache, key)
    /\ yielded' = EmptyBag
    /\ last' = Event("Write", key, val, TRUE)
    /\ errno' = "EIO"
    /\ UNCHANGED <<CacheSizeMax, Compression, files, cacheSize, index,
                   tasks, panicked, written, erased, Transform>>
    /\ UNCHANGED <<ivars, lvars>>

\* Diskv.write when the device fails after the file was opened: the copy
\* breaks off after n bytes, or f.Sync or f.Close fails after all of them;
\* the error is returned before Index.Insert and delete(d.cache, key).
DiskvWriteFail(key, val, n) ==
    /\ ~panicked
    /\ key # EmptyKey
    /\ n \in 0..Len(maybeWriteCompressed(val))
    /\ LET made == MkdirAll(fs, pathFor(key))
           filename == completeFilename(key)
       IN /\ ~made.err
          /\ ~(filename \in DOMAIN made.fs /\ made.fs[filename].dir)
          /\ fs' = Put(made.fs, filename,
                       FileNode(SubSeq(maybeWriteCompressed(val), 1, n)))
    /\ yielded' = EmptyBag
    /\ last' = Event("Write", key, val, TRUE)
    /\ errno' = "EIO"
    /\ UNCHANGED <<CacheSizeMax, Compression, files, cache, cacheSize, index,
                   tasks, panicked, written, erased, Transform>>
    /\ UNCHANGED <<ivars, lvars>>

\* A Diskv.Read that starts the caching goroutine before it looks at the
\* error of ioutil.ReadFile.
DiskvRead_CacheOnError(key) ==
    /\ ~panicked
    /\ IF key \in DOMAIN cache
       THEN /\ LET r == decompress(cache[key])
               IN /\ last' = Event("Read", key, r.val, r.err)
                  /\ errno' = IF r.err THEN "decompress" ELSE "nil"
            /\ UNCHANGED tasks
       ELSE LET r == ReadFile(fs, completeFilename(key))
            IN /\ BagCardinality(tasks) < MaxTasks
               /\ tasks' = tasks (+) SetToBag({<<key, r.val>>})
               /\ last' = Event("Read", key, r.val, r.err # "nil")
               /\ errno' = r.err
    /\ UNCHANGED <<CacheSizeMax, Compression, files, cache, cacheSize, index,
                   panicked, written, erased, Transform, fs, yielded>>
    /\ UNCHANGED <<ivars, lvars>>

\* Diskv.Read on the directory tree: the cache first, then ioutil.ReadFile
\* of the complete filename, whose error is returned with no data; else the
\* caching goroutine is started and the bytes are returned.
DiskvRead(key) ==
    /\ ~panicked
    /\ IF key \in DOMAIN cache
       THEN /\ LET r == decompress(cache[key])
               IN /\ last' = Event("Read", key, r.val, r.err)
                  /\ errno' = IF r.err THEN "decompress" ELSE "nil"
            /\ UNCHANGED tasks
       ELSE LET f == ReadFile(fs, completeFilename(key))
            IN IF f.err # "nil"
               THEN /\ last' = Event("Read", key, <<>>, TRUE)
                    /\ errno' = f.err
                    /\ UNCHANGED tasks
               ELSE /\ BagCardinality(tasks) < MaxTasks
                    /\ tasks' = tasks (+) SetToBag({<<key, f.val>>})
                    /\ LET r == decompress(f.val)
                       IN /\ last' = Event("Read", key, r.val, r.err)
                          /\ errno' = IF r.err THEN "decompress" ELSE "nil"
    /\ UNCHANGED <<CacheSizeMax, Compression, files, cache, cacheSize, index,
                   panicked, written, erased, Transform, fs, yielded>>
    /\ UNCHANGED <<ivars, lvars>>

\* Diskv.ReadStream on the directory tree: os.Open of the complete filename,
\* then the copy to the writer; val is what the writer got.
DiskvReadStream(key) ==
    /\ ~panicked
    /\ LET f == ReadFile(fs, completeFilename(key))
       IN IF f.err # "nil"
          THEN /\ last' = Event("ReadStream", key, <<>>, TRUE)
               /\ errno' = f.err
          ELSE LET r == maybeReadDecompressed(f.val)
               IN /\ last' = Event("ReadStream", key, r.val, r.err)
                  /\ errno' = IF r.err THEN "decompress" ELSE "nil"
    /\ UNCHANGED <<CacheSizeMax, Compression, files, cache, cacheSize, index,
                   tasks, panicked, written, erased, Transform, fs, yielded>>
    /\ UNCHANGED <<ivars, lvars>>

\* rebuild(less, keys): a new tree of the keys the channel delivers.
rebuild(ks) == BagToSet(ks)

\* An Initialize that inserts the keys into the tree it already has.
Initialize_KeepTree(i, ks) == i \cup rebuild(ks)

\* LLRBIndex.Initialize: the tree is replaced by the rebuilt one.
Initialize(i, ks) == rebuild(ks)

\* New over the same BasePath, with the same Options and the same Index
\* object: a new Diskv with an empty cache, and Index.Initialize with the
\* keys of d.Keys().  The goroutines of the old Diskv work on the old cache.
DiskvNew ==
    /\ ~panicked
    /\ cache' = EmptyMap
    /\ cacheSize' = 0
    /\ tasks' = EmptyBag
    /\ index' = Initialize(index, walker(fs))
    /\ yielded' = EmptyBag
    /\ last' = Event("New", EmptyKey, <<>>, FALSE)
    /\ errno' = "nil"
    /\ UNCHANGED <<CacheSizeMax, Compression, files, panicked, written, erased,
                   Transform, fs>>
    /\ UNCHANGED <<ivars, lvars>>

\* isNotFound(error), the classifier of the not-found kind: the error of a
\* path at which there is nothing.
IsNotExist(e) == e = "ENOENT"

\* A store with an Index and no cache, under any of the three transforms.
InitTree == \E xf \in Transforms : New(0, FALSE, xf)

NextTree ==
    \/ \E key \in PathKeys \cup {EmptyKey}, val \in Values : DiskvWrite(key, val)
    \/ \E key \in PathKeys \cup {EmptyKey} : DiskvErase(key)
    \/ DiskvEraseAll
    \/ DiskvKeys
    \/ \E prefix \in Strings : KeysPrefix(prefix)
    \/ DiskvNew

SpecTree == InitTree /\ [][NextTree]_vars

\* The runs of Write and Erase alone.
NextWriteErase ==
    \/ \E key \in PathKeys \cup {EmptyKey}, val \in Values : DiskvWrite(key, val)
    \/ \E key \in PathKeys \cup {EmptyKey} : DiskvErase(key)

SpecWriteErase == InitTree /\ [][NextWriteErase]_vars

\* The keys of TestIssue2B, a key and the key its directory is named after,
\* for blocks of BlockSize bytes.
ReadKeys == {"ab", "abab"}

\* A store with a cache, under any of the three transforms.
InitTreeRead ==
    \E max \in 0..MaxCacheSizeMax, xf \in Transforms : New(max, FALSE, xf)

\* Writes, reads, erases and the caching goroutines on the directory tree.
NextTreeRead ==
    \/ \E key \in ReadKeys \cup {EmptyKey}, val \in Values : DiskvWrite(key, val)
    \/ \E key \in ReadKeys \cup {EmptyKey} : DiskvRead(key)
    \/ \E key \in ReadKeys \cup {EmptyKey} : DiskvReadStream(key)
    \/ \E key \in ReadKeys \cup {EmptyKey} : DiskvErase(key)
    \/ \E key \in ReadKeys, val \in Values : CacheTask(key, val)

SpecTreeRead == InitTreeRead /\ [][NextTreeRead]_vars

\* A store with a cache of MaxCacheSizeMax bytes on a device that can fail.
InitWriteFail == \E xf \in Transforms : New(MaxCacheSizeMax, FALSE, xf)

\* Writes that succeed or fail, reads and the caching goroutines.
NextWriteFail ==
    \/ \E key \in ReadKeys \cup {EmptyKey}, val \in Values : DiskvWrite(key, val)
    \/ \E key \in ReadKeys, val \in Values, n \in 0..MaxValLen :
          DiskvWriteFail(key, val, n)
    \/ \E key \in ReadKeys : DiskvRead(key)
    \/ \E key \in ReadKeys, val \in Values : CacheTask(key, val)

SpecWriteFail == InitWriteFail /\ [][NextWriteFail]_vars

\* ------------------------------------------------------------- claims
\* The value Read(key) returned, when the last completed call is a Read of a
\* key on which a Write is in force.
ReadOfWritten ==
    /\ last.op = "Read"
    /\ last.key \in DOMAIN written

\* C1: round trip.  Once Write(k, v) has succeeded, every later Read(k) that
\* no Write(k), Erase(k) or EraseAll precedes succeeds and returns exactly v,
\* whatever happened before, pending cache-population tasks included.
C1_RoundTrip ==
    ReadOfWritten => (~last.err /\ last.val = written[last.key])

\* C2: the cache is never stale.  A key that has a cache entry has a file,
\* and the cached bytes are the file's current contents.
C2_CacheNeverStale ==
    \A k \in DOMAIN cache : k \in DOMAIN files /\ cache[k] = files[k]

\* C3: erase completeness.  After a successful Erase(k) and until the next
\* Write(k), Read(k) fails, Keys() does not yield k and the index does not
\* hold k.
C3_EraseComplete ==
    \A k \in Keys :
        erased[k] =>
            /\ k \notin DiskKeys
            /\ k \notin index
            /\ (last.op = "Read" /\ last.key = k) => last.err

\* C4: cache bound.  The size counter, and the real sum of the lengths of
\* the cached values, never exceed CacheSizeMax (and the unsigned counter
\* never wrapped below zero).
C4_CacheBound ==
    /\ 0 <= cacheSize
    /\ cacheSize <= CacheSizeMax
    /\ SumLen(cache) <= CacheSizeMax

\* C4's case: a population step has just filled a cache of two entries to
\* the maximum.
C4_Witness ==
    /\ last.op = "cache"
    /\ ~last.err
    /\ ~panicked
    /\ CacheSizeMax > 0
    /\ Cardinality(DOMAIN cache) = 2
    /\ cacheSize = CacheSizeMax

\* C5: no double counting.  A population attempt for a key that an earlier
\* attempt of a concurrent read already cached with the same bytes leaves one
\* entry for the key and does not grow the size counter again.
C5_NoDoubleCount ==
    [][(/\ last'.op = "cache"
        /\ last'.key \in DOMAIN cache
        /\ cache[last'.key] = last'.val)
       => (/\ ~panicked'
           /\ cache' = cache
           /\ cacheSize' = cacheSize)]_vars

\* C6: a value longer than CacheSizeMax is never cached, its Write and Read
\* succeed and return the right bytes, and the rejected population attempt
\* evicts nothing and leaves the size counter unchanged.
C6_OversizeValue ==
    [][/\ \A k \in DOMAIN cache' : Len(cache'[k]) <= CacheSizeMax
       /\ (/\ last'.op = "Write"
           /\ last'.key \in Keys
           /\ Len(last'.val) > CacheSizeMax) => ~last'.err
       /\ (/\ last'.op = "Read"
           /\ last'.key \in DOMAIN written'
           /\ Len(written'[last'.key]) > CacheSizeMax)
          => (~last'.err /\ last'.val = written'[last'.key])
       /\ (/\ last'.op = "cache"
           /\ Len(last'.val) > CacheSizeMax)
          => (last'.err /\ cache' = cache /\ cacheSize' = cacheSize)]_vars

\* The part of C6 that is about the cache alone: no cached value is longer
\* than CacheSizeMax, and a rejected population attempt changes neither the
\* cache nor the counter.
C6_RejectFrame ==
    [][/\ \A k \in DOMAIN cache' : Len(cache'[k]) <= CacheSizeMax
       /\ (/\ last'.op = "cache"
           /\ Len(last'.val) > CacheSizeMax)
          => (last'.err /\ cache' = cache /\ cacheSize' = cacheSize)]_vars

\* C7: with CacheSizeMax = 0 the cache is always empty, whatever is written
\* and read, the empty value included.
C7_ZeroDisablesCache ==
    CacheSizeMax = 0 => DOMAIN cache = {}

\* The elements of a sequence.
Range(s) == {s[i] : i \in 1..Len(s)}

\* In strictly increasing comparator order.
StrictlyIncreasing(s) == \A i, j \in 1..Len(s) : i < j => Less(s[i], s[j])

\* The m smallest keys of t, in strictly increasing order.
FirstKeys(p, t, m) ==
    /\ Len(p) = m
    /\ Range(p) \subseteq t
    /\ StrictlyIncreasing(p)
    /\ \A k \in t \ Range(p) : \A i \in 1..Len(p) : Less(p[i], k)

SizeOrCount(t, n) == IF n < Cardinality(t) THEN n ELSE Cardinality(t)

\* A call has returned, and its start key is empty or not in the index.
CallFromStart ==
    /\ call.impl # "none"
    /\ call.from = EmptyKey \/ call.from \notin tree

\* C8: index order.  With startKey empty or absent from the index,
\* keysFrom(startKey, count) returns the first min(count, size) keys of the
\* index in strictly increasing order, from the minimum key inclusive;
\* a, 1, m, -, A written, keysFrom("", 100) gives -, 1, A, a, m.
C8_IndexOrder ==
    /\ CallFromStart => FirstKeys(page, tree, SizeOrCount(tree, call.n))
    /\ (CallFromStart /\ tree = IndexKeys /\ call.n = BigCount)
          => page = <<"-", "1", "A", "a", "m">>

\* C8's case: TestIndexOrder's call on the five keys.
C8_Witness ==
    /\ call.impl = "OrderedStore"
    /\ call.from = EmptyKey
    /\ call.n = BigCount
    /\ tree = IndexKeys
    /\ Len(page) = 5

\* The key that follows k in t.
Successor(t, k) == TreeMin({e \in t : Less(k, e)})

\* C9: pagination is exclusive of the cursor.  For a key k of the index and
\* n >= 1, keysFrom(k, n) never returns k; its first result is k's immediate
\* successor, and the result is empty when k is the maximum key.
C9_ExclusiveCursor ==
    (call.impl # "none" /\ call.from \in tree /\ call.n >= 1)
       => /\ call.from \notin Range(page)
          /\ IF call.from = TreeMax(tree)
             THEN page = <<>>
             ELSE page # <<>> /\ page[1] = Successor(tree, call.from)

\* C10: cursor pagination covers the key space and ends.  On an unchanging
\* index the pages, concatenated, list keys of the index in strictly
\* increasing order, each once (so an empty page comes after at most as many
\* calls as there are keys), and when the empty page has come they list
\* every key.
C10_Pagination ==
    pager.phase # "idle"
       => /\ StrictlyIncreasing(pager.seen)
          /\ Range(pager.seen) \subseteq tree
          /\ pager.phase = "done" => Range(pager.seen) = tree

\* C12: EraseAll clears everything.  When EraseAll has returned success the
\* cache is empty, the size counter is 0, the Index holds no key and no key
\* has a file, so that Keys() yields nothing and every Read is not-found.
C12_EraseAllClears ==
    (last.op = "EraseAll" /\ ~last.err)
       => /\ DOMAIN cache = {}
          /\ cacheSize = 0
          /\ index = {}
          /\ DiskKeys = {}

\* The part of C12 that leaves the Index out.
C12_CacheAndDisk ==
    (last.op = "EraseAll" /\ ~last.err)
       => /\ DOMAIN cache = {}
          /\ cacheSize = 0
          /\ DiskKeys = {}

\* C15: the codec is applied exactly once.  With a Compression whose
\* Decompress inverts Compress, a Read(k) after Write(k, x) returns x, the
\* empty x included, from the cache as from the disk: the file holds x
\* compressed once, and the cache holds the bytes of the file.
C15_CodecOnce ==
    /\ ReadOfWritten => (~last.err /\ last.val = written[last.key])
    /\ \A k \in DOMAIN files :
          k \in DOMAIN written /\ files[k] = Compress(written[k])
    /\ \A k \in DOMAIN cache : k \in DOMAIN files /\ cache[k] = files[k]

\* The part of C15 that is about the codec alone: the bytes on disk and in
\* the cache are values compressed once, and a Read that finds the key
\* returns a value, decompressed once, without a codec error.
C15_AppliedOnce ==
    /\ \A k \in DOMAIN files : \E x \in Values : files[k] = Compress(x)
    /\ \A k \in DOMAIN cache : \E x \in Values : cache[k] = Compress(x)
    /\ (last.op = "Read" /\ (last.key \in DOMAIN cache \/ last.key \in DOMAIN files))
          => (~last.err /\ last.val \in Values)

\* C16: a streaming read populates the cache.  Right after a successful
\* WriteStream(k) the key is not cached; and a ReadStream of an uncached key
\* whose bytes fit in the cache, once it has copied the file to its end,
\* leaves k cached with the bytes of the file.
C16_StreamPopulates ==
    [][ /\ (last'.op = "Write" /\ ~last'.err) => last'.key \notin DOMAIN cache'
        /\ ( /\ last'.op = "ReadStream"
             /\ ~last'.err
             /\ last'.key \notin DOMAIN cache
             /\ CacheSizeMax > 0
             /\ Len(files[last'.key]) <= CacheSizeMax )
           => ( /\ last'.key \in DOMAIN cache'
                /\ cache'[last'.key] = files[last'.key] )
      ]_vars

\* The part of C16 about WriteStream: after it the key is not cached.
C16_WriteStreamUncached ==
    (last.op = "Write" /\ ~last.err) => last.key \notin DOMAIN cache

\* C17: a Read of a cached key is a pure lookup.  It returns the cached
\* value without looking at the disk, and changes neither the cache, the
\* size counter, the index nor the set of pending population tasks.
C17_CachedReadIsPure ==
    [][ (last'.op = "Read" /\ last'.key \in DOMAIN cache)
           => /\ ~last'.err
              /\ last'.val = decompress(cache[last'.key]).val
              /\ UNCHANGED <<cache, cacheSize, index, tasks, files, panicked>>
      ]_vars

\* C17's case: a cached key was read, with success, when its file is gone.
C17_Witness ==
    /\ last.op = "Read"
    /\ ~last.err
    /\ last.key \in DOMAIN cache
    /\ last.key \notin DOMAIN files

\* C18: lazy caching happens.  A Write leaves its key uncached; and when the
\* population task of a Read(k) miss that returned v, with len(v) <=
\* CacheSizeMax and CacheSizeMax > 0, runs right after that Read (so that no
\* Write, Erase or EraseAll came between), it leaves k cached with v.  The
\* task runs some time under fair scheduling, and a panic ends the process,
\* so this is what "k eventually becomes cached" asks of that step.
C18_LazyCaching ==
    [][ /\ (last'.op = "Write" /\ ~last'.err) => last'.key \notin DOMAIN cache'
        /\ ( /\ last.op = "Read"
             /\ ~last.err
             /\ last.key \notin DOMAIN cache
             /\ CacheSizeMax > 0
             /\ Len(last.val) <= CacheSizeMax
             /\ last'.op = "cache"
             /\ last'.key = last.key
             /\ last'.val = last.val )
           => ( /\ ~panicked'
                /\ last.key \in DOMAIN cache'
                /\ cache'[last.key] = last.val )
      ]_vars

\* The same with a size counter that has not drifted from the cache.
C18_NoDrift ==
    [][ ( /\ last.op = "Read"
          /\ ~last.err
          /\ last.key \notin DOMAIN cache
          /\ cacheSize = SumLen(cache)
          /\ CacheSizeMax > 0
          /\ Len(last.val) <= CacheSizeMax
          /\ last'.op = "cache"
          /\ last'.key = last.key
          /\ last'.val = last.val )
        => ( /\ ~panicked'
             /\ last.key \in DOMAIN cache'
             /\ cache'[last.key] = last.val )
      ]_vars

\* The key has a file: its complete filename is a non-directory entry.
HasFile(key) ==
    /\ completeFilename(key) \in DOMAIN fs
    /\ ~fs[completeFilename(key)].dir

Ancestors(key) == {Prefix(pathFor(key), i) : i \in 1..Len(pathFor(key))}

\* A successful Erase of a key stored under two or more segments.
NestedErase ==
    /\ last'.op = "Erase"
    /\ ~last'.err
    /\ Len(pathlist(last'.key)) >= 2

\* C13: pruning.  After the Erase of a key stored under a nested
\* multi-segment path no ancestor directory of the key is left empty (the
\* empty ones were removed, deepest first, up to the first one that still
\* holds an entry); nothing but the key's file and ancestors of the key is
\* removed, no directory that still holds an entry and no file of another
\* key.
C13_Pruning ==
    [][ NestedErase =>
          /\ \A d \in Ancestors(last'.key) : d \in DOMAIN fs' => Children(fs', d) # {}
          /\ \A q \in DOMAIN fs' : Len(q) > 0 => Prefix(q, Len(q) - 1) \in DOMAIN fs'
          /\ \A q \in DOMAIN fs \ DOMAIN fs' :
                q = completeFilename(last'.key) \/ q \in Ancestors(last'.key)
          /\ \A q \in DOMAIN fs \cap DOMAIN fs' : fs'[q] = fs[q]
      ]_vars

\* The part of C13 about what is kept.
C13_KeepsOthers ==
    [][ NestedErase =>
          /\ \A q \in DOMAIN fs' : Len(q) > 0 => Prefix(q, Len(q) - 1) \in DOMAIN fs'
          /\ \A q \in DOMAIN fs \ DOMAIN fs' :
                q = completeFilename(last'.key) \/ q \in Ancestors(last'.key)
          /\ \A q \in DOMAIN fs \cap DOMAIN fs' : fs'[q] = fs[q]
      ]_vars

\* The part of C13 about what is removed, for keys whose segments hold no
\* pattern byte.
C13_PlainKeys ==
    [][ (NestedErase /\ \A i \in 1..Len(Chars[last'.key]) : Chars[last'.key][i] # "*")
          => \A d \in Ancestors(last'.key) : d \in DOMAIN fs' => Children(fs', d) # {}
      ]_vars

\* C19: Keys() enumerates the store.  The channel yields the name of every
\* key that has a file, each once, and nothing else, under the flat and the
\* nested transforms.
C19_KeysEnumerates ==
    last.op = "Keys"
       => /\ BagToSet(yielded) = {key \in PathKeys : HasFile(key)}
          /\ \A key \in BagToSet(yielded) : CopiesIn(key, yielded) = 1

\* C19's case: Keys() on a nested store that holds two keys or more.
C19_Witness ==
    /\ last.op = "Keys"
    /\ Transform = "block"
    /\ Cardinality(BagToSet(yielded)) >= 2
    /\ \E key \in BagToSet(yielded) : Len(pathFor(key)) >= 2

\* C20: keysPrefix(prefix) yields the keys of the store that start with
\* prefix, the set Keys() filtered by string-prefix match gives, for every
\* prefix (one that ends inside a segment, one that matches nothing) and
\* under the flat and the nested transforms.
C20_KeysPrefix ==
    last.op = "KeysPrefix"
       => /\ BagToSet(yielded) =
                {key \in PathKeys : HasFile(key) /\ HasPrefix(key, last.key)}
          /\ \A key \in BagToSet(yielded) : CopiesIn(key, yielded) = 1

\* C20's case: a prefix that ends inside a segment and keeps some keys of a
\* nested store but not all.
C20_Witness ==
    /\ last.op = "KeysPrefix"
    /\ Transform = "block"
    /\ last.key = "abc"
    /\ BagToSet(yielded) # {}
    /\ \E key \in PathKeys : HasFile(key) /\ key \notin BagToSet(yielded)

\* C14: whole-value reads.  A Read(k) that runs while a Write(k, v2) over an
\* existing v1 is under way returns v1 when it gets the mutex before the
\* Write and v2 when it gets it after: the value of the last Write that
\* completed, whole, and not-found only when the key has no value.
C14_WholeValueReads ==
    last.op = "Read"
       => IF last.key \in DOMAIN written
          THEN ~last.err /\ last.val = written[last.key]
          ELSE last.err

\* The part of C14 about the disk: a Read that was served from the disk
\* returned the whole value of the last Write that completed.
C14_DiskReadsWhole ==
    (last.op = "Read" /\ ~last.err /\ last.key \notin DOMAIN cache)
       => last.key \in DOMAIN written /\ last.val = written[last.key]

\* C21: Write with an empty key returns the empty-key error and changes
\* nothing: no directory and no file is made, and the cache, the size counter
\* and the index stay as they were.
C21_EmptyKeyWrite ==
    [][(last'.op = "Write" /\ last'.key = EmptyKey)
       => (/\ last'.err
           /\ errno' = "empty key"
           /\ UNCHANGED <<fs, cache, cacheSize, index>>)]_vars

\* C21's case: the empty key was written to a store that holds a key.
C21_Witness ==
    /\ last.op = "Write"
    /\ last.key = EmptyKey
    /\ last.err
    /\ index # {}
    /\ \E q \in DOMAIN fs : ~fs[q].dir

\* There is nothing at the key's complete filename and no file on the way to
\* it: the key has no file and collides with no stored key.
NoFile(key) ==
    /\ completeFilename(key) \notin DOMAIN fs
    /\ \A i \in 0..Len(pathFor(key)) :
          Prefix(pathFor(key), i) \in DOMAIN fs => fs[Prefix(pathFor(key), i)].dir

\* C22: Read of a key that has no file and no cache entry returns a
\* not-found error, which the classifier accepts, and no data; it starts no
\* cache population and leaves the cache, the counter and the index alone.
C22_ReadMissing ==
    [][\A key \in ReadKeys :
          (/\ last'.op = "Read"
           /\ last'.key = key
           /\ key \notin DOMAIN cache
           /\ NoFile(key))
          => (/\ last'.err
              /\ IsNotExist(errno')
              /\ last'.val = <<>>
              /\ UNCHANGED <<tasks, cache, cacheSize, index>>)]_vars

\* C22's case: the Read of a key that was erased failed, while another key
\* is stored and cached.
C22_Witness ==
    /\ last.op = "Read"
    /\ last.key \in ReadKeys
    /\ last.key \notin DOMAIN cache
    /\ NoFile(last.key)
    /\ IsNotExist(errno)
    /\ DOMAIN cache # {}
    /\ index # {}

\* The key's complete filename is a directory.
IsDirectory(key) ==
    /\ completeFilename(key) \in DOMAIN fs
    /\ fs[completeFilename(key)].dir

\* C30: reading a key whose resolved path is a directory (the key ab after
\* abab was written under blocks of two bytes) returns an error from Read and
\* from ReadStream, never data, and caches nothing.
C30_DirectoryRead ==
    [][\A key \in ReadKeys :
          (/\ last'.op \in {"Read", "ReadStream"}
           /\ last'.key = key
           /\ IsDirectory(key))
          => (/\ last'.err
              /\ last'.val = <<>>
              /\ UNCHANGED <<tasks, cache, cacheSize>>)]_vars

\* The part of C30 that holds: ReadStream of such a key, and Read of such a
\* key when the cache has no entry for it, fail with EISDIR, return no data
\* and cache nothing.
C30_UncachedDirectoryRead ==
    [][\A key \in ReadKeys :
          (/\ last'.op \in {"Read", "ReadStream"}
           /\ last'.key = key
           /\ IsDirectory(key)
           /\ last'.op = "Read" => key \notin DOMAIN cache)
          => (/\ last'.err
              /\ errno' = "EISDIR"
              /\ last'.val = <<>>
              /\ UNCHANGED <<tasks, cache, cacheSize>>)]_vars

\* C23: Erase of a key whose resolved path is a directory fails with the
\* bad-key error, removes neither the directory nor anything beneath it and
\* prunes nothing; Erase of a key with no file fails with a not-found error,
\* which is another error, and leaves the directory tree unchanged.
C23_EraseErrors ==
    [][\A key \in PathKeys \cup {EmptyKey} :
          /\ (/\ last'.op = "Erase"
               /\ last'.key = key
               /\ IsDirectory(key))
              => (/\ last'.err
                  /\ errno' = "bad key"
                  /\ fs' = fs
                  /\ ~panicked')
          /\ (/\ last'.op = "Erase"
               /\ last'.key = key
               /\ NoFile(key))
              => (/\ last'.err
                  /\ errno' = "ENOENT"
                  /\ fs' = fs
                  /\ ~panicked')]_vars

\* C23's case: the Erase of a key whose resolved path is a directory that
\* holds another key's file has failed.
C23_Witness ==
    /\ last.op = "Erase"
    /\ last.key \in PathKeys
    /\ errno = "bad key"
    /\ IsDirectory(last.key)
    /\ \E q \in Children(fs, completeFilename(last.key)) : ~fs[q].dir

\* C24: the size counter is exact.  Between operations the counter is the
\* sum of the lengths of the values in the cache map, so every removal of an
\* entry took exactly the entry's length off the counter.
C24_CounterExact ==
    cacheSize = SumLen(cache)

\* C25: cache population never aborts.  Neither panic of cacheWithLock is
\* reachable, whatever the sequence of Write, Read, Erase, EraseAll and
\* population steps.
C25_NoPanic ==
    ~panicked

\* C26: synchronous invalidation.  In the state in which a successful
\* Write(k, v) or Erase(k) releases the exclusive lock, and until the next
\* call completes, k has no cache entry, whatever the cache held before.
C26_SyncInvalidation ==
    (last.op \in {"Write", "Erase"} /\ ~last.err) => last.key \notin DOMAIN cache

\* C26's case: a Write has released the lock and the cache is empty, while
\* the size counter still counts an entry; with CacheSizeMax = 1 only the
\* invalidation of a cached key by a Write leaves that behind.
C26_Witness ==
    /\ last.op = "Write"
    /\ ~last.err
    /\ wr.pc = "idle"
    /\ CacheSizeMax = 1
    /\ cacheSize = 1
    /\ DOMAIN cache = {}

\* The keys of the index after the start position of a call.
KeysAfter(from) ==
    IF from = EmptyKey \/ from \notin tree THEN tree
    ELSE {k \in tree : Less(from, k)}

\* C27: keysFrom never returns more than count keys, and returns fewer than
\* count keys only when the index is exhausted: the last returned key is the
\* maximum key of the index, or the index holds no key after the start
\* position.
C27_CountBound ==
    call # NoCall =>
        /\ Len(page) <= call.n
        /\ Len(page) < call.n =>
              \/ page # <<>> /\ page[Len(page)] = TreeMax(tree)
              \/ KeysAfter(call.from) = {}

\* C27's cases: a call from a key of the index was cut at count although
\* keys remain, or returned fewer keys than count and ended at the maximum.
C27_Witness ==
    /\ call # NoCall
    /\ call.from \in tree
    /\ page # <<>>
    /\ \/ Len(page) = call.n /\ page[Len(page)] # TreeMax(tree)
       \/ Len(page) < call.n /\ Len(page) >= 2

\* C28: the index is rebuilt at construction.  When a store with an index is
\* constructed over a base directory that already holds keys, the index
\* after construction holds exactly the keys that have files there; what the
\* index object held before is discarded.
C28_IndexRebuilt ==
    last.op = "New" => index = {k \in PathKeys : HasFile(k)}

\* C28's case: a store was constructed over a base directory that holds
\* some keys.
C28_Witness ==
    /\ last.op = "New"
    /\ index # {}
    /\ \E k \in PathKeys : HasFile(k)
    /\ \E k \in PathKeys : ~HasFile(k)

\* The key has a file that is completely written and closed: no goroutine
\* inside Diskv.write has truncated it and not yet closed it.
CompleteFile(k) ==
    /\ k \in DOMAIN files
    /\ ~(wr.pc = "copy" /\ wr.key = k)

\* C29: a key is visible in the index only after its Write is complete.  In
\* every reachable state, the states inside a running Write included, every
\* key of the index has a completely written file on disk (an Erase takes
\* the key out of the index before it removes the file).
C29_IndexedAfterWrite ==
    \A k \in index : CompleteFile(k)

\* The part of C29 that holds: a key enters the index only in the step that
\* ends its Write, when its file holds the whole value and is closed.
C29_InsertAfterClose ==
    [][\A k \in Keys :
          (k \notin index /\ k \in index')
          => (/\ wr.pc = "copy"
              /\ wr.key = k
              /\ wr'.pc = "idle"
              /\ k \in DOMAIN files'
              /\ files'[k] = maybeWriteCompressed(written'[k]))]_vars

\* C31: a failed Write mutates neither the index nor the cache.  Whatever
\* step of Diskv.write returns the error (the key check, the directory
\* creation, the open, the copy, the sync, the close), the index, the cache
\* and the size counter are as before the call.
C31_FailedWrite ==
    [][(last'.op = "Write" /\ last'.err)
       => UNCHANGED <<index, cache, cacheSize>>]_vars

\* C31's case: the Write of a cached and indexed key has failed on the
\* device, after the file was opened.
C31_Witness ==
    /\ last.op = "Write"
    /\ last.err
    /\ errno = "EIO"
    /\ last.key \in DOMAIN cache
    /\ last.key \in index

\* C32: a failed Erase leaves the derived views untouched.  Whenever
\* Erase(k) returns an error, the cache, the size counter and the index are
\* the same as before the call.
C32_FailedErase ==
    [][(last'.op = "Erase" /\ last'.err)
       => UNCHANGED <<cache, cacheSize, index>>]_vars

\* C33: Erase never removes the base directory itself.  Under every
\* transform, the one with no segment and the default one with one empty
\* segment included, BasePath is still there after a successful Erase.
C33_BasePathStays ==
    [][(last'.op = "Erase" /\ ~last'.err) => <<>> \in DOMAIN fs']_vars

\* The part of C33 that holds: under the transforms whose segments are not
\* empty (none at all, or blocks of the key), BasePath stays.
C33_NamedSegments ==
    [][(last'.op = "Erase" /\ ~last'.err /\ Transform # "default")
       => <<>> \in DOMAIN fs']_vars

\* C36: the size counter never under-counts.  In every reachable state the
\* counter is at least the sum of the lengths of the cached values, and so
\* never below zero, where the unsigned counter would wrap.
C36_NeverUnderCounts ==
    /\ cacheSize >= SumLen(cache)
    /\ cacheSize >= 0

\* C36's case: an Erase has run on a cache of two keys whose counter had
\* drifted, and the counter is still above the bytes of the entry left.
C36_Witness ==
    /\ last.op = "Erase"
    /\ ~last.err
    /\ ~panicked
    /\ DOMAIN cache # {}
    /\ cacheSize > SumLen(cache)

\* C39: a store built with an index never hits the uninitialized-index
\* abort.  After New with an Index, with or without an IndexLess, no Write
\* and no Erase panics, so no Write aborts after it has written the file.
C39_IndexInitialized ==
    ~panicked

\* The part of C39 that holds: with an IndexLess the index is initialised
\* and no Write or Erase panics.
C39_WithIndexLess ==
    initialized => ~panicked

\* C35: the legacy Store replaces values whole.  After Store.Write(k, v2)
\* has succeeded, Store.Read(k) returns exactly v2, also when k was cached
\* with an older value at the time of the Write and when v2 is shorter than
\* what the file held.
C35_StoreReplaces ==
    (last.op = "Read" /\ last.key \in DOMAIN written)
    => (~last.err /\ last.val = written[last.key])

\* C34: OrderedStore keeps its index equal to the disk under concurrency.
\* Once every concurrent OrderedStore.Write and OrderedStore.Erase has
\* returned, IsIndexed(k) is true exactly when k's file exists.
C34_IndexEqualsDisk ==
    (\A t \in Threads : th[t].pc = "idle")
    => \A k \in Keys : IsIndexed(k) <=> k \in DOMAIN files

\* C38: LLRBIndex.Keys delivers a consistent page while the index changes:
\* the keys received from the channel are strictly increasing in comparator
\* order (so no key twice) and all of them were in the index when Keys was
\* called.
C38_ConsistentPage ==
    /\ \A i \in 1..Len(feed.out), j \in 1..Len(feed.out) :
          i < j => Less(feed.out[i], feed.out[j])
    /\ \A i \in 1..Len(feed.out) : feed.out[i] \in feed.at

\* C37: no deadlock.  Under fair scheduling every call of Write, Read,
\* Erase, EraseAll and Index.Keys that has started returns, every pending
\* cache-population task gets the lock and every task that has it releases
\* it, unless the process aborts; a Read that holds the lock can return
\* whatever its task does; and whenever a goroutine is inside the store or
\* a task is pending, some goroutine can take a step.
C37_NoDeadlock ==
    /\ \A t \in Threads : (th[t].pc # "idle") ~> (th[t].pc = "idle" \/ panicked)
    /\ \A key \in FairKeys, val \in FairValues :
          BagIn(<<key, val>>, tasks)
             ~> ((wr.pc = "cache" /\ wr.key = key /\ wr.val = val) \/ panicked)
    /\ (wr.pc # "idle") ~> (wr.pc = "idle" \/ panicked)
    /\ [](\A t \in Threads :
            (~panicked /\ th[t].op = "Read" /\ th[t].pc = "held")
               => ENABLED ReadReturn(t))
    /\ []((~panicked /\ (tasks # EmptyBag \/ wr.pc # "idle"
                          \/ \E t \in Threads : th[t].pc # "idle"))
            => ENABLED Step)

\* C37: a goroutine waits for the lock another one holds while a task is
\* pending, and a task has run.
C37_Witness ==
    /\ ~panicked
    /\ \E t \in Threads, u \in Threads :
          /\ th[t].pc = "lock" /\ th[t].op = "Read"
          /\ th[u].pc = "index"
    /\ tasks # EmptyBag
    /\ DOMAIN cache # {}

====
